---- MODULE Spec2Model ----
(***************************************************************************)
(* Identity and session subsystem of the note-taking backend:             *)
(* the User collection (schema, indexes, hooks, instance methods), the    *)
(* auth controller (register, verifyOTP, login, googleAuth, resendOTP),   *)
(* the user controller (updateProfile, changePassword, deleteAccount),    *)
(* the JWT middleware, the global error handler, and the Note collection  *)
(* with the note controller.                                               *)
(*                                                                         *)
(* Time is counted in minutes.  Spec runs every handler as one atomic     *)
(* step (sequential requests); SpecConc splits a handler at its store     *)
(* awaits (find, then save) so that requests interleave; SpecNotes runs   *)
(* the account and note handlers one request at a time; SpecRefresh runs  *)
(* refreshTokenMiddleware alone.                                           *)
(***************************************************************************)
EXTENDS Integers, Sequences, FiniteSets, TLC

\* ------------------------------------------------------------------ bounds
MaxUsers == 2        \* accounts ever created (ObjectIds 1..MaxUsers)
MaxTime == 10        \* the clock stops advancing here
TickMinutes == 10    \* granularity of the clock
RandDen == 2         \* Math.random() yields k / RandDen, k in 0 .. RandDen-1
MaxReq == 2          \* requests in flight at a time (SpecConc)
MaxOps == 3          \* requests started in a run of SpecConc
MaxNotes == 1        \* notes ever created (ObjectIds 1..MaxNotes)

\* ------------------------------------------------------- program constants
OTP_TTL == 10        \* 10 * 60 * 1000 ms
TOKEN_TTL == 10080   \* expiresIn: '7d'
REFRESH_WINDOW == 1440   \* 24 * 60 * 60 s

\* ------------------------------------------------------------ input values
None == "none"
NoOtp == << >>       \* otp: undefined
NoExpiry == -1       \* otpExpiry: undefined
NoId == 0            \* findOne(...) === null
\* a bearer token: the signed payload, and sig = "valid" when the signature is
\* the one JWT_SECRET gives; NoToken is no Authorization header
NoToken == [userId |-> NoId, email |-> None, exp |-> 0, sig |-> None]
\* a string that is not a JWT, and a JWT whose signature does not verify
Garbage == [userId |-> NoId, email |-> None, exp |-> 0, sig |-> "malformed"]
Forged(tok) == [tok EXCEPT !.sig = "forged"]

RawEmails == {"A@x.com", "b@x.com"}
Passwords == {"secret1", "secret2"}
Names == {"Ann"}
RegPasswords == {"secret1"}
Envs == {"development", "production"}
Ids == 1 .. MaxUsers
NoteIds == 1 .. MaxNotes
\* note titles and contents as a client sends them, and String.prototype.trim
NoteTitles == {"t1", " t2 "}
NoteContents == {"c1"}
trim(str) == IF str = " t2 " THEN "t2" ELSE str
Fields == {"email", "password", "name", "isVerified", "googleId", "otp", "otpExpiry"}

\* String.prototype.toLowerCase on the e-mail inputs
toLowerCase(s) == IF s = "A@x.com" THEN "a@x.com" ELSE s

\* bcrypt.hash / bcrypt.compare: a hash matches exactly the password hashed
bcryptHash(pw) == IF pw = "secret1" THEN "$2a$12$secret1" ELSE "$2a$12$secret2"
bcryptCompare(pw, hash) == hash = bcryptHash(pw)

\* Number.prototype.toString for a positive integer, as its decimal digits
RECURSIVE Digits(_)
Digits(n) == IF n < 10 THEN << n >> ELSE Append(Digits(n \div 10), n % 10)

\* Math.floor(100000 + Math.random() * 900000).toString(), random = k / RandDen
RandomOtp(k) == Digits(100000 + ((k * 900000) \div RandDen))

\* six-digit strings a client can submit (otpVerificationSchema)
OtpInputs == { RandomOtp(k) : k \in 0 .. (RandDen - 1) } \cup { << 0, 0, 0, 0, 0, 0 >> }

\* verified Google ID-token payloads, and assertions that do not verify
GooglePayloads ==
    { [kind |-> "ok", sub |-> "g1", email |-> "A@x.com", name |-> "Ann"],
      [kind |-> "ok", sub |-> None, email |-> "b@x.com", name |-> "Ann"],
      [kind |-> "nopayload", sub |-> None, email |-> None, name |-> None],
      [kind |-> "bad", sub |-> None, email |-> None, name |-> None] }

VARIABLES users,     \* the User collection: ObjectId -> document
          nextId,    \* next fresh ObjectId
          now,       \* Date.now(), in minutes
          token,     \* the bearer token in the client's localStorage
          out,       \* the outcome of the request being answered
          redeems,   \* per account: successful verifyOTP calls since its OTP was issued
          reqs,      \* requests in flight (SpecConc)
          started,   \* requests started so far (SpecConc)
          notes,     \* the Note collection: ObjectId -> document
          nextNoteId \* next fresh ObjectId of a note

vars == << users, nextId, now, token, out, redeems, reqs, started, notes, nextNoteId >>

\* ------------------------------------------------------------- User schema
NewUser(email, password, name, googleId, isVerified) ==
    [ email      |-> toLowerCase(email),
      password   |-> password,
      name       |-> name,
      isVerified |-> isVerified,
      googleId   |-> googleId,
      otp        |-> NoOtp,
      otpExpiry  |-> NoExpiry ]

\* the hook left out: every document passes
preSaveSkipped(doc) == TRUE

preSave(doc) == ~ (doc.password = None /\ doc.googleId = None)

\* User.findOne({ email }): the id of a matching document, NoId for null
findOne(us, email) ==
    LET hit == { i \in DOMAIN us : us[i].email = email }
    IN  IF hit = {} THEN NoId ELSE CHOOSE i \in hit : TRUE

\* findByEmail without the toLowerCase() of its argument
findByEmailNoLower(us, email) == findOne(us, email)

findByEmail(us, email) == findOne(us, toLowerCase(email))

\* generateOTP replacing the code and leaving the expiry as it was
generateOTPKeepsExpiry(doc, t, k) == [ doc EXCEPT !.otp = RandomOtp(k) ]

generateOTP(doc, t, k) ==
    [ doc EXCEPT !.otp = RandomOtp(k), !.otpExpiry = t + OTP_TTL ]

isOTPValid(doc, otp, t) ==
    doc.otp = otp /\ doc.otpExpiry # NoExpiry /\ t < doc.otpExpiry

\* clearOTP leaving both fields in place
clearOTPKept(doc) == doc

clearOTP(doc) == [ doc EXCEPT !.otp = NoOtp, !.otpExpiry = NoExpiry ]

\* ------------------------------------------------------------------ errors
\* the message each error code is thrown with (one literal per code)
Message(code) ==
    CASE code = "USER_EXISTS" -> "User already exists with this email"
      [] code = "USER_NOT_FOUND" -> "User not found"
      [] code = "NOTE_NOT_FOUND" -> "Note not found"
      [] code = "ALREADY_VERIFIED" -> "User is already verified"
      [] code = "INVALID_OTP" -> "Invalid or expired OTP"
      [] code = "INVALID_CREDENTIALS" -> "Invalid email or password"
      [] code = "GOOGLE_LOGIN_REQUIRED" -> "Please login with Google"
      [] code = "EMAIL_NOT_VERIFIED" -> "Please verify your email first"
      [] code = "INVALID_GOOGLE_TOKEN" -> "Invalid Google token"
      [] code = "INCOMPLETE_GOOGLE_PROFILE" -> "Incomplete Google profile"
      [] code = "GOOGLE_AUTH_FAILED" -> "Google authentication failed"
      [] code = "EMAIL_SEND_FAILED" -> "Failed to send OTP email"
      [] code = "NO_FIELDS_TO_UPDATE" -> "No fields to update"
      [] code = "EMAIL_ALREADY_EXISTS" -> "Email is already in use"
      [] code = "GOOGLE_ACCOUNT_NO_PASSWORD"
           -> "Cannot change password for Google-authenticated account"
      [] code = "INVALID_CURRENT_PASSWORD" -> "Current password is incorrect"
      [] code = "SAME_PASSWORD" -> "New password must be different from current password"
      [] code = "INVALID_PASSWORD" -> "Invalid password"
      [] code = "PASSWORD_REQUIRED" -> "Password is required to delete account"
      [] code = "DUPLICATE_FIELD" -> "Email already exists"
      [] code = "INVALID_JWT" -> "Invalid token. Please log in again."
      [] code = "JWT_EXPIRED" -> "Your token has expired. Please log in again."
      [] OTHER -> "Invalid input data"

NoErr == [name |-> None, message |-> None, statusCode |-> 0, code |-> None]
AppError(status, code) ==
    [name |-> "AppError", message |-> Message(code), statusCode |-> status, code |-> code]
PreSaveError ==
    [name |-> "Error", message |-> "Either password or googleId must be provided",
     statusCode |-> 0, code |-> None]
DocumentNotFoundError ==
    [name |-> "DocumentNotFoundError", message |-> "No document found for query",
     statusCode |-> 0, code |-> None]
DuplicateKeyError ==
    [name |-> "MongoServerError", message |-> "E11000 duplicate key error",
     statusCode |-> 0, code |-> "11000"]
\* what googleClient.verifyIdToken throws for an assertion that does not verify
GoogleVerifyError ==
    [name |-> "Error", message |-> "Invalid token signature", statusCode |-> 0, code |-> None]

sendErrorDev(err) == [status |-> err.statusCode, code |-> err.code, error |-> err.message]

\* sendErrorProd passing the message and code of every error on
sendErrorProdLeaking(err) ==
    [status |-> err.statusCode, code |-> err.code, error |-> err.message]

sendErrorProd(err) ==
    IF err.statusCode < 500
    THEN [status |-> err.statusCode, code |-> err.code, error |-> err.message]
    ELSE [status |-> 500, code |-> "INTERNAL_SERVER_ERROR",
          error |-> "Something went wrong on the server"]

globalErrorHandler(err, env) ==
    LET e0 == [ err EXCEPT !.statusCode = IF err.statusCode = 0 THEN 500 ELSE err.statusCode ]
        e1 == IF err.name = "CastError" THEN AppError(400, "INVALID_ID") ELSE e0
        e2 == IF err.code = "11000" THEN AppError(400, "DUPLICATE_FIELD") ELSE e1
        e3 == IF err.name = "ValidationError" THEN AppError(400, "VALIDATION_ERROR") ELSE e2
        e4 == IF err.name = "JsonWebTokenError" THEN AppError(401, "INVALID_JWT") ELSE e3
        e5 == IF err.name = "TokenExpiredError" THEN AppError(401, "JWT_EXPIRED") ELSE e4
    IN  IF env = "development" THEN sendErrorDev(e5) ELSE sendErrorProd(e5)

\* ------------------------------------------------------------------- store
\* an insert into a collection without the unique e-mail index
InsertNoUnique(us, id, doc) ==
    IF ~ preSave(doc) THEN [err |-> PreSaveError, users |-> us]
    ELSE [err |-> NoErr, users |-> (id :> doc) @@ us]

\* document.save() of a new document: pre-save hook, unique e-mail index, insert
Insert(us, id, doc) ==
    IF ~ preSave(doc) THEN [err |-> PreSaveError, users |-> us]
    ELSE IF \E j \in DOMAIN us : us[j].email = doc.email
         THEN [err |-> DuplicateKeyError, users |-> us]
    ELSE [err |-> NoErr, users |-> (id :> doc) @@ us]

\* paths of a loaded document whose value differs from the loaded one
Modified(orig, doc) == { f \in Fields : doc[f] # orig[f] }

\* document.save() with optimistic concurrency: the save fails with a
\* VersionError when the stored document is no longer the one loaded
UpdateOptimistic(us, id, orig, doc) ==
    IF ~ preSave(doc) THEN [err |-> PreSaveError, users |-> us]
    ELSE IF id \notin DOMAIN us THEN [err |-> DocumentNotFoundError, users |-> us]
    ELSE IF us[id] # orig
         THEN [err |-> [name |-> "VersionError", message |-> "No matching document found",
                        statusCode |-> 0, code |-> None],
               users |-> us]
    ELSE [err |-> NoErr, users |-> [us EXCEPT ![id] = doc]]

\* document.save() of a loaded document: pre-save hook, then an update of the
\* modified paths only; no matching document is a DocumentNotFoundError
Update(us, id, orig, doc) ==
    IF ~ preSave(doc) THEN [err |-> PreSaveError, users |-> us]
    ELSE IF id \notin DOMAIN us THEN [err |-> DocumentNotFoundError, users |-> us]
    ELSE IF "email" \in Modified(orig, doc) /\ \E j \in DOMAIN us \ {id} : us[j].email = doc.email
         THEN [err |-> DuplicateKeyError, users |-> us]
    ELSE [err |-> NoErr,
          users |-> [us EXCEPT ![id] =
                        [f \in Fields |-> IF f \in Modified(orig, doc) THEN doc[f] ELSE us[id][f]]]]

\* ------------------------------------------------------------------ tokens
\* generateAccessToken signing the account id alone
generateAccessTokenNoEmail(userId, email, t) ==
    [userId |-> userId, email |-> None, exp |-> t + TOKEN_TTL, sig |-> "valid"]

generateAccessToken(userId, email, t) ==
    [userId |-> userId, email |-> email, exp |-> t + TOKEN_TTL, sig |-> "valid"]

\* jwt.verify comparing the expiry before it validates the signature
jwtVerifyExpiryFirst(tok, t) ==
    IF tok.sig = "malformed" THEN "JsonWebTokenError"
    ELSE IF t >= tok.exp THEN "TokenExpiredError"
    ELSE IF tok.sig # "valid" THEN "JsonWebTokenError"
    ELSE None

\* jwt.verify(token, JWT_SECRET, callback): the name of the error handed to the
\* callback, None when the token verifies.  The structure is checked first,
\* then the signature, then the expiry (exp <= now is expired); a nbf claim,
\* which generateAccessToken never sets, would give NotBeforeError
jwtVerify(tok, t) ==
    IF tok.sig = "malformed" THEN "JsonWebTokenError"
    ELSE IF tok.sig # "valid" THEN "JsonWebTokenError"
    ELSE IF t >= tok.exp THEN "TokenExpiredError"
    ELSE None

\* verifyToken: the promise rejects with the error of jwt.verify, or resolves
\* to the decoded payload
NoPayload == [userId |-> NoId, email |-> None, exp |-> 0]
verifyToken(tok, t) ==
    IF jwtVerify(tok, t) # None
    THEN [err |-> jwtVerify(tok, t), payload |-> NoPayload]
    ELSE [err |-> None,
          payload |-> [userId |-> tok.userId, email |-> tok.email, exp |-> tok.exp]]

\* authenticateToken also looking the account up, turning down the token of
\* an account that is gone or whose e-mail has changed
authenticateTokenChecksAccount(tok, t) ==
    IF tok = NoToken
    THEN [ok |-> FALSE, status |-> 401, code |-> "MISSING_TOKEN",
          error |-> "Access token required"]
    ELSE IF jwtVerify(tok, t) = "TokenExpiredError"
         THEN [ok |-> FALSE, status |-> 403, code |-> "TOKEN_EXPIRED",
               error |-> "Token has expired"]
    ELSE IF jwtVerify(tok, t) = "JsonWebTokenError"
         THEN [ok |-> FALSE, status |-> 403, code |-> "MALFORMED_TOKEN",
               error |-> "Invalid token format"]
    ELSE IF tok.userId \notin DOMAIN users \/ users[tok.userId].email # tok.email
         THEN [ok |-> FALSE, status |-> 403, code |-> "INVALID_TOKEN",
               error |-> "Invalid or expired token"]
    ELSE [ok |-> TRUE, status |-> 200, code |-> "OK", error |-> None]

\* authenticateToken verifying with ignoreExpiration
authenticateTokenIgnoresExpiry(tok, t) ==
    IF tok = NoToken
    THEN [ok |-> FALSE, status |-> 401, code |-> "MISSING_TOKEN",
          error |-> "Access token required"]
    ELSE IF tok.sig # "valid"
         THEN [ok |-> FALSE, status |-> 403, code |-> "MALFORMED_TOKEN",
               error |-> "Invalid token format"]
    ELSE [ok |-> TRUE, status |-> 200, code |-> "OK", error |-> None]

\* authenticateToken: next() with req.user = the decoded identity (ok), or the
\* error response it sends by itself
authenticateToken(tok, t) ==
    IF tok = NoToken
    THEN [ok |-> FALSE, status |-> 401, code |-> "MISSING_TOKEN",
          error |-> "Access token required"]
    ELSE IF jwtVerify(tok, t) = "TokenExpiredError"
         THEN [ok |-> FALSE, status |-> 403, code |-> "TOKEN_EXPIRED",
               error |-> "Token has expired"]
    ELSE IF jwtVerify(tok, t) = "JsonWebTokenError"
         THEN [ok |-> FALSE, status |-> 403, code |-> "MALFORMED_TOKEN",
               error |-> "Invalid token format"]
    ELSE IF jwtVerify(tok, t) # None
         THEN [ok |-> FALSE, status |-> 403, code |-> "INVALID_TOKEN",
               error |-> "Invalid or expired token"]
    ELSE [ok |-> TRUE, status |-> 200, code |-> "OK", error |-> None]

\* refreshTokenMiddleware renewing every token that verifies
refreshTokenMiddlewareNoWindow(tok, t) ==
    IF tok = NoToken THEN [nexts |-> 1, sent |-> FALSE, header |-> NoToken]
    ELSE LET renew == jwtVerify(tok, t) = None
         IN  [nexts |-> 1, sent |-> FALSE,
              header |-> IF renew THEN generateAccessToken(tok.userId, tok.email, t)
                         ELSE NoToken]

\* refreshTokenMiddleware: nexts counts its calls of next(), sent tells
\* whether it has sent a response, header is the X-New-Token header it has
\* set (NoToken: not set).  Without a token it calls next() and returns; with
\* one, the callback of jwt.verify sets the header when the token verifies
\* and payload.exp - now is below a day, and then calls next().  Nothing in
\* the try block throws, so the catch block, with its own next(), is not run
refreshTokenMiddleware(tok, t) ==
    IF tok = NoToken THEN [nexts |-> 1, sent |-> FALSE, header |-> NoToken]
    ELSE LET renew == jwtVerify(tok, t) = None /\ tok.exp - t < REFRESH_WINDOW
         IN  [nexts |-> 1, sent |-> FALSE,
              header |-> IF renew THEN generateAccessToken(tok.userId, tok.email, t)
                         ELSE NoToken]

\* --------------------------------------------------------------- responses
\* an HTTP response: req is the request slot answered (0 when requests run
\* one at a time)
\* no account object, and no notes, in a response
NoUser == [id |-> NoId]
Ok(req, op, status, tok) ==
    [req |-> req, op |-> op, status |-> status, code |-> "OK", error |-> None,
     token |-> tok, user |-> NoUser, data |-> {}, message |-> None]
Failed(req, op, err, env) ==
    [req |-> req, op |-> op, status |-> globalErrorHandler(err, env).status,
     code |-> globalErrorHandler(err, env).code,
     error |-> globalErrorHandler(err, env).error, token |-> NoToken,
     user |-> NoUser, data |-> {}, message |-> None]

\* toUserResponse leaving the OTP fields in
toUserResponseWithOtp(id, doc) ==
    [id |-> id, email |-> doc.email, name |-> doc.name, isVerified |-> doc.isVerified,
     createdAt |-> "timestamp", otp |-> doc.otp, otpExpiry |-> doc.otpExpiry]

\* userSchema.methods.toUserResponse; the documents here keep no timestamps,
\* createdAt stands for the one the response carries
toUserResponse(id, doc) ==
    [id |-> id, email |-> doc.email, name |-> doc.name, isVerified |-> doc.isVerified,
     createdAt |-> "timestamp"]

\* noteSchema.methods.toNoteResponse, without the two timestamps
toNoteResponse(id, note) == [id |-> id, title |-> note.title, content |-> note.content]

Remove(us, id) == [i \in DOMAIN us \ {id} |-> us[i]]

\* Note.deleteMany({ userId }): the collection without the notes of userId
deleteMany(ns, userId) == [n \in { m \in DOMAIN ns : ns[m].userId # userId } |-> ns[n]]

\* ---------------------------------------------------------- handler plans
\* What a handler decides between its store reads and its store write:
\* err # NoErr is the error it throws; otherwise write names the store
\* operation it goes on to await ("insert", "update", "delete", "none").
Throw(e) == [err |-> e, write |-> "none", id |-> NoId,
             orig |-> NewUser(None, None, None, None, FALSE),
             doc |-> NewUser(None, None, None, None, FALSE)]
Write(w, id, orig, doc) == [err |-> NoErr, write |-> w, id |-> id, orig |-> orig, doc |-> doc]

registerPlan(us, t, email, password, name, k) ==
    IF findByEmail(us, email) # NoId
    THEN Throw(AppError(400, "USER_EXISTS"))
    ELSE LET user == generateOTP(NewUser(email, bcryptHash(password), name, None, FALSE), t, k)
         IN  Write("insert", NoId, user, user)

\* verifyOTP validating the code before looking at the verification flag
verifyOTPPlanOtpFirst(us, t, email, otp) ==
    LET id == findByEmail(us, email)
    IN  IF id = NoId THEN Throw(AppError(404, "USER_NOT_FOUND"))
        ELSE IF ~ isOTPValid(us[id], otp, t) THEN Throw(AppError(400, "INVALID_OTP"))
        ELSE IF us[id].isVerified THEN Throw(AppError(400, "ALREADY_VERIFIED"))
        ELSE Write("update", id, us[id], clearOTP([us[id] EXCEPT !.isVerified = TRUE]))

verifyOTPPlan(us, t, email, otp) ==
    LET id == findByEmail(us, email)
    IN  IF id = NoId THEN Throw(AppError(404, "USER_NOT_FOUND"))
        ELSE IF us[id].isVerified THEN Throw(AppError(400, "ALREADY_VERIFIED"))
        ELSE IF ~ isOTPValid(us[id], otp, t) THEN Throw(AppError(400, "INVALID_OTP"))
        ELSE Write("update", id, us[id], clearOTP([us[id] EXCEPT !.isVerified = TRUE]))

\* login without the isVerified check
loginPlanNoVerifiedCheck(us, email, password) ==
    LET id == findOne(us, toLowerCase(email))
    IN  IF id = NoId THEN Throw(AppError(401, "INVALID_CREDENTIALS"))
        ELSE IF us[id].googleId # None /\ us[id].password = None
             THEN Throw(AppError(400, "GOOGLE_LOGIN_REQUIRED"))
        ELSE IF us[id].password = None THEN Throw(AppError(400, "GOOGLE_LOGIN_REQUIRED"))
        ELSE IF ~ bcryptCompare(password, us[id].password)
             THEN Throw(AppError(401, "INVALID_CREDENTIALS"))
        ELSE Write("none", id, us[id], us[id])

\* login going straight to the password comparison
loginPlanNoGoogleCheck(us, email, password) ==
    LET id == findOne(us, toLowerCase(email))
    IN  IF id = NoId THEN Throw(AppError(401, "INVALID_CREDENTIALS"))
        ELSE IF ~ bcryptCompare(password, us[id].password)
             THEN Throw(AppError(401, "INVALID_CREDENTIALS"))
        ELSE IF ~ us[id].isVerified THEN Throw(AppError(400, "EMAIL_NOT_VERIFIED"))
        ELSE Write("none", id, us[id], us[id])

\* login looking at the verification flag before comparing the password
loginPlanVerifiedFirst(us, email, password) ==
    LET id == findOne(us, toLowerCase(email))
    IN  IF id = NoId THEN Throw(AppError(401, "INVALID_CREDENTIALS"))
        ELSE IF us[id].googleId # None /\ us[id].password = None
             THEN Throw(AppError(400, "GOOGLE_LOGIN_REQUIRED"))
        ELSE IF us[id].password = None THEN Throw(AppError(400, "GOOGLE_LOGIN_REQUIRED"))
        ELSE IF ~ us[id].isVerified THEN Throw(AppError(400, "EMAIL_NOT_VERIFIED"))
        ELSE IF ~ bcryptCompare(password, us[id].password)
             THEN Throw(AppError(401, "INVALID_CREDENTIALS"))
        ELSE Write("none", id, us[id], us[id])

loginPlan(us, email, password) ==
    LET id == findOne(us, toLowerCase(email))
    IN  IF id = NoId THEN Throw(AppError(401, "INVALID_CREDENTIALS"))
        ELSE IF us[id].googleId # None /\ us[id].password = None
             THEN Throw(AppError(400, "GOOGLE_LOGIN_REQUIRED"))
        ELSE IF us[id].password = None THEN Throw(AppError(400, "GOOGLE_LOGIN_REQUIRED"))
        ELSE IF ~ bcryptCompare(password, us[id].password)
             THEN Throw(AppError(401, "INVALID_CREDENTIALS"))
        ELSE IF ~ us[id].isVerified THEN Throw(AppError(400, "EMAIL_NOT_VERIFIED"))
        ELSE Write("none", id, us[id], us[id])

\* the catch block of googleAuth: AppErrors pass, anything else becomes a 500
googleCatch(e) == IF e.name = "AppError" THEN e ELSE AppError(500, "GOOGLE_AUTH_FAILED")

\* googleAuth creating the new account as register does, unverified
googleAuthPlanUnverified(us, g) ==
    IF g.kind = "bad" THEN Throw(googleCatch(GoogleVerifyError))
    ELSE IF g.kind = "nopayload" THEN Throw(googleCatch(AppError(400, "INVALID_GOOGLE_TOKEN")))
    ELSE IF g.email = None \/ g.name = None \/ g.sub = None
         THEN Throw(googleCatch(AppError(400, "INCOMPLETE_GOOGLE_PROFILE")))
    ELSE LET id == findByEmail(us, g.email)
         IN  IF id # NoId
             THEN IF us[id].googleId = None
                  THEN Write("update", id, us[id],
                             [us[id] EXCEPT !.googleId = g.sub, !.isVerified = TRUE])
                  ELSE Write("none", id, us[id], us[id])
             ELSE LET user == NewUser(g.email, None, g.name, g.sub, FALSE)
                  IN  Write("insert", NoId, user, user)

googleAuthPlan(us, g) ==
    IF g.kind = "bad" THEN Throw(googleCatch(GoogleVerifyError))
    ELSE IF g.kind = "nopayload" THEN Throw(googleCatch(AppError(400, "INVALID_GOOGLE_TOKEN")))
    ELSE IF g.email = None \/ g.name = None \/ g.sub = None
         THEN Throw(googleCatch(AppError(400, "INCOMPLETE_GOOGLE_PROFILE")))
    ELSE LET id == findByEmail(us, g.email)
         IN  IF id # NoId
             THEN IF us[id].googleId = None
                  THEN Write("update", id, us[id],
                             [us[id] EXCEPT !.googleId = g.sub, !.isVerified = TRUE])
                  ELSE Write("none", id, us[id], us[id])
             ELSE LET user == NewUser(g.email, None, g.name, g.sub, TRUE)
                  IN  Write("insert", NoId, user, user)

\* resendOTP sending the stored code again with a new expiry when there is one
resendOTPPlanKeepsCode(us, t, email, k) ==
    LET id == findByEmail(us, email)
    IN  IF id = NoId THEN Throw(AppError(404, "USER_NOT_FOUND"))
        ELSE IF us[id].isVerified THEN Throw(AppError(400, "ALREADY_VERIFIED"))
        ELSE IF us[id].otp # NoOtp
             THEN Write("update", id, us[id], [us[id] EXCEPT !.otpExpiry = t + OTP_TTL])
        ELSE Write("update", id, us[id], generateOTP(us[id], t, k))

resendOTPPlan(us, t, email, k) ==
    LET id == findByEmail(us, email)
    IN  IF id = NoId THEN Throw(AppError(404, "USER_NOT_FOUND"))
        ELSE IF us[id].isVerified THEN Throw(AppError(400, "ALREADY_VERIFIED"))
        ELSE Write("update", id, us[id], generateOTP(us[id], t, k))

\* updateProfile resetting the flag whenever the body carries an e-mail
updateProfilePlanAlwaysReset(us, us2, userId, body) ==
    IF body.name = None /\ body.email = None
    THEN Throw(AppError(400, "NO_FIELDS_TO_UPDATE"))
    ELSE IF userId \notin DOMAIN us THEN Throw(AppError(404, "USER_NOT_FOUND"))
    ELSE LET user == us[userId]
             changes == body.email # None /\ body.email # user.email
             u1 == IF body.email # None
                   THEN [user EXCEPT !.email = toLowerCase(body.email), !.isVerified = FALSE]
                   ELSE user
             u2 == IF body.name # None THEN [u1 EXCEPT !.name = body.name] ELSE u1
         IN  IF changes /\ findByEmail(us2, body.email) # NoId
             THEN Throw(AppError(400, "EMAIL_ALREADY_EXISTS"))
             ELSE Write("update", userId, user, u2)

\* updateProfile dropping the stored OTP code when the e-mail changes
updateProfilePlanClearsOtp(us, us2, userId, body) ==
    IF body.name = None /\ body.email = None
    THEN Throw(AppError(400, "NO_FIELDS_TO_UPDATE"))
    ELSE IF userId \notin DOMAIN us THEN Throw(AppError(404, "USER_NOT_FOUND"))
    ELSE LET user == us[userId]
             changes == body.email # None /\ body.email # user.email
             u1 == IF changes
                   THEN clearOTP([user EXCEPT !.email = toLowerCase(body.email),
                                              !.isVerified = FALSE])
                   ELSE user
             u2 == IF body.name # None THEN [u1 EXCEPT !.name = body.name] ELSE u1
         IN  IF changes /\ findByEmail(us2, body.email) # NoId
             THEN Throw(AppError(400, "EMAIL_ALREADY_EXISTS"))
             ELSE Write("update", userId, user, u2)

\* updateProfile: us is the collection at User.findById, us2 the collection at
\* User.findByEmail; body.name / body.email are None when absent
updateProfilePlan(us, us2, userId, body) ==
    IF body.name = None /\ body.email = None
    THEN Throw(AppError(400, "NO_FIELDS_TO_UPDATE"))
    ELSE IF userId \notin DOMAIN us THEN Throw(AppError(404, "USER_NOT_FOUND"))
    ELSE LET user == us[userId]
             changes == body.email # None /\ body.email # user.email
             u1 == IF changes
                   THEN [user EXCEPT !.email = toLowerCase(body.email), !.isVerified = FALSE]
                   ELSE user
             u2 == IF body.name # None THEN [u1 EXCEPT !.name = body.name] ELSE u1
         IN  IF changes /\ findByEmail(us2, body.email) # NoId
             THEN Throw(AppError(400, "EMAIL_ALREADY_EXISTS"))
             ELSE Write("update", userId, user, u2)

changePasswordPlan(us, userId, currentPassword, newPassword) ==
    IF userId \notin DOMAIN us THEN Throw(AppError(404, "USER_NOT_FOUND"))
    ELSE IF us[userId].password = None
         THEN Throw(AppError(400, "GOOGLE_ACCOUNT_NO_PASSWORD"))
    ELSE IF ~ bcryptCompare(currentPassword, us[userId].password)
         THEN Throw(AppError(400, "INVALID_CURRENT_PASSWORD"))
    ELSE IF bcryptCompare(newPassword, us[userId].password)
         THEN Throw(AppError(400, "SAME_PASSWORD"))
    ELSE Write("update", userId, us[userId],
               [us[userId] EXCEPT !.password = bcryptHash(newPassword)])

\* deleteAccount going on to the deletion when the body carries no password
deleteAccountPlanPasswordOptional(us, userId, password) ==
    IF userId \notin DOMAIN us THEN Throw(AppError(404, "USER_NOT_FOUND"))
    ELSE IF us[userId].password # None /\ password # None
              /\ ~ bcryptCompare(password, us[userId].password)
         THEN Throw(AppError(400, "INVALID_PASSWORD"))
    ELSE Write("delete", userId, us[userId], us[userId])

deleteAccountPlan(us, userId, password) ==
    IF userId \notin DOMAIN us THEN Throw(AppError(404, "USER_NOT_FOUND"))
    ELSE IF us[userId].password # None /\ password # None
              /\ ~ bcryptCompare(password, us[userId].password)
         THEN Throw(AppError(400, "INVALID_PASSWORD"))
    ELSE IF us[userId].password # None /\ password = None
         THEN Throw(AppError(400, "PASSWORD_REQUIRED"))
    ELSE Write("delete", userId, us[userId], us[userId])

\* the store operation a plan awaits, applied to the collection as it is then
Commit(us, nid, p) ==
    IF p.write = "insert" THEN Insert(us, nid, p.doc)
    ELSE IF p.write = "update" THEN Update(us, p.id, p.orig, p.doc)
    ELSE IF p.write = "delete" THEN [err |-> NoErr, users |-> Remove(us, p.id)]
    ELSE [err |-> NoErr, users |-> us]

\* ------------------------------------------------------- handler outcomes
\* Where a handler stands once its store work is done: it has thrown err, or
\* it goes on to answer status / code, with a token for userId / email when
\* userId # NoId.  What is left is the mail it awaits and the response.
NoOut == [req |-> 0, op |-> "none", err |-> NoErr, status |-> 0, code |-> None,
          error |-> None, userId |-> NoId, email |-> None, user |-> NoUser, data |-> {}]
Thrown(req, op, err) ==
    [req |-> req, op |-> op, err |-> err, status |-> 0, code |-> None,
     error |-> None, userId |-> NoId, email |-> None, user |-> NoUser, data |-> {}]
Done(req, op, status, userId, email) ==
    [req |-> req, op |-> op, err |-> NoErr, status |-> status, code |-> "OK",
     error |-> None, userId |-> userId, email |-> email, user |-> NoUser, data |-> {}]
\* authenticateToken answers by itself, without globalErrorHandler
Rejected(req, op, a) ==
    [req |-> req, op |-> op, err |-> NoErr, status |-> a.status, code |-> a.code,
     error |-> a.error, userId |-> NoId, email |-> None, user |-> NoUser, data |-> {}]
\* the outcome carries user: user.toUserResponse()
WithUser(o, id, doc) == [o EXCEPT !.user = toUserResponse(id, doc)]
\* the outcome of a note handler, carrying the notes of its response
NoteDone(req, op, status, data) ==
    [Done(req, op, status, NoId, None) EXCEPT !.data = data]

\* p is the handler's plan, s the result of Commit, uid the id of the account
\* written or read
registerOut(req, p, s) ==
    IF p.err # NoErr THEN Thrown(req, "register", p.err)
    ELSE IF s.err # NoErr THEN Thrown(req, "register", s.err)
    ELSE Done(req, "register", 201, NoId, None)

\* verifyOTP going on to the token whatever user.save() gave
verifyOTPOutIgnoringSave(req, p, s) ==
    IF p.err # NoErr THEN Thrown(req, "verifyOTP", p.err)
    ELSE WithUser(Done(req, "verifyOTP", 200, p.id, p.doc.email), p.id, p.doc)

verifyOTPOut(req, p, s) ==
    IF p.err # NoErr THEN Thrown(req, "verifyOTP", p.err)
    ELSE IF s.err # NoErr THEN Thrown(req, "verifyOTP", s.err)
    ELSE WithUser(Done(req, "verifyOTP", 200, p.id, p.doc.email), p.id, p.doc)

loginOut(req, p) ==
    IF p.err # NoErr THEN Thrown(req, "login", p.err)
    ELSE WithUser(Done(req, "login", 200, p.id, p.doc.email), p.id, p.doc)

googleAuthOut(req, p, s, uid) ==
    IF p.err # NoErr THEN Thrown(req, "googleAuth", p.err)
    ELSE IF s.err # NoErr THEN Thrown(req, "googleAuth", googleCatch(s.err))
    ELSE WithUser(Done(req, "googleAuth", 200, uid, p.doc.email), uid, p.doc)

resendOTPOut(req, p, s) ==
    IF p.err # NoErr THEN Thrown(req, "resendOTP", p.err)
    ELSE IF s.err # NoErr THEN Thrown(req, "resendOTP", s.err)
    ELSE Done(req, "resendOTP", 200, NoId, None)

\* updateProfile, changePassword and deleteAccount
userOut(req, op, p, s) ==
    IF p.err # NoErr THEN Thrown(req, op, p.err)
    ELSE IF s.err # NoErr THEN Thrown(req, op, s.err)
    ELSE IF op = "updateProfile" THEN WithUser(Done(req, op, 200, NoId, None), p.id, p.doc)
    ELSE Done(req, op, 200, NoId, None)

\* the token a handler that got as far as outcome o signs at time t: none
\* when it has thrown, and none from the handlers that issue no token
Issued(o, t) ==
    IF o.err # NoErr \/ o.userId = NoId THEN NoToken
    ELSE generateAccessToken(o.userId, o.email, t)

\* register answering with the one message whatever became of the OTP mail
successMessageMailBlind(op, mailOk) ==
    CASE op = "register" ->
           "User registered successfully. Please check your email for OTP verification."
      [] op = "verifyOTP" -> "Email verified successfully"
      [] op = "login" -> "Login successful"
      [] op = "googleAuth" -> "Google login successful"
      [] op = "resendOTP" -> "OTP sent successfully"
      [] op = "getProfile" -> "Profile retrieved successfully"
      [] op = "updateProfile" -> "Profile updated successfully"
      [] op = "changePassword" -> "Password changed successfully"
      [] op = "deleteAccount" -> "Account deleted successfully"
      [] op = "getNotes" -> "Notes retrieved successfully"
      [] op = "getNoteById" -> "Note retrieved successfully"
      [] op = "createNote" -> "Note created successfully"
      [] op = "updateNote" -> "Note updated successfully"
      [] op = "deleteNote" -> "Note deleted successfully"
      [] op = "deleteAllNotes" -> "notes deleted successfully"
      [] OTHER -> None

\* the message of a handler's success response, built once the mail the
\* handler awaits has been delivered (mailOk) or has failed; register alone
\* words it by the outcome of the mail.  deleteAllNotes puts the count of
\* deleted notes in front of its message
successMessage(op, mailOk) ==
    CASE op = "register" ->
           IF mailOk
           THEN "User registered successfully. Please check your email for OTP verification."
           ELSE "User registered but email could not be sent. Please try to resend OTP."
      [] op = "verifyOTP" -> "Email verified successfully"
      [] op = "login" -> "Login successful"
      [] op = "googleAuth" -> "Google login successful"
      [] op = "resendOTP" -> "OTP sent successfully"
      [] op = "getProfile" -> "Profile retrieved successfully"
      [] op = "updateProfile" -> "Profile updated successfully"
      [] op = "changePassword" -> "Password changed successfully"
      [] op = "deleteAccount" -> "Account deleted successfully"
      [] op = "getNotes" -> "Notes retrieved successfully"
      [] op = "getNoteById" -> "Note retrieved successfully"
      [] op = "createNote" -> "Note created successfully"
      [] op = "updateNote" -> "Note updated successfully"
      [] op = "deleteNote" -> "Note deleted successfully"
      [] op = "deleteAllNotes" -> "notes deleted successfully"
      [] OTHER -> None

\* register letting a failed OTP mail fail the call, as resendOTP does
ReplyMailRequired(o, mailOk, t, env) ==
    IF o.err # NoErr THEN Failed(o.req, o.op, o.err, env)
    ELSE IF o.op \in {"resendOTP", "register"} /\ ~ mailOk
         THEN Failed(o.req, o.op, AppError(500, "EMAIL_SEND_FAILED"), env)
    ELSE [req |-> o.req, op |-> o.op, status |-> o.status, code |-> o.code,
          error |-> o.error, token |-> Issued(o, t), user |-> o.user, data |-> o.data,
          message |-> IF o.code = "OK" THEN successMessage(o.op, mailOk) ELSE None]

\* The response to outcome o at time t: mailOk tells whether the mail the
\* handler awaits is delivered (only resendOTP fails on it), env is NODE_ENV
Reply(o, mailOk, t, env) ==
    IF o.err # NoErr THEN Failed(o.req, o.op, o.err, env)
    ELSE IF o.op = "resendOTP" /\ ~ mailOk
         THEN Failed(o.req, o.op, AppError(500, "EMAIL_SEND_FAILED"), env)
    ELSE [req |-> o.req, op |-> o.op, status |-> o.status, code |-> o.code,
          error |-> o.error, token |-> Issued(o, t), user |-> o.user, data |-> o.data,
          message |-> IF o.code = "OK" THEN successMessage(o.op, mailOk) ELSE None]

\* ------------------------------------------------------------------- state
Idle == [op |-> "idle", pc |-> "idle"]
ProfileBodies ==
    { [name |-> n, email |-> e] : n \in Names \cup {None}, e \in RawEmails \cup {None} }

Init ==
    /\ users = << >>
    /\ nextId = 1
    /\ now = 0
    /\ token = NoToken
    /\ out = NoOut
    /\ redeems = [i \in Ids |-> 0]
    /\ reqs = [r \in 1 .. MaxReq |-> Idle]
    /\ started = 0
    /\ notes = << >>
    /\ nextNoteId = 1

\* nothing in flight: the client has the answer to its last request
Quiet == out = NoOut /\ \A r \in 1 .. MaxReq : reqs[r] = Idle

\* the store write of plan p with result s takes effect
Stored(p, s) ==
    LET ok == p.err = NoErr /\ s.err = NoErr
    IN  /\ users' = IF ok THEN s.users ELSE users
        /\ nextId' = IF ok /\ p.write = "insert" THEN nextId + 1 ELSE nextId
        /\ notes' = IF ok /\ p.write = "delete" THEN deleteMany(notes, p.id) ELSE notes

\* the count of redemptions after handler op ran plan p with store result s
Redeemed(op, id, p, s) ==
    IF p.err # NoErr \/ s.err # NoErr THEN redeems
    ELSE IF op = "register" THEN [redeems EXCEPT ![id] = 0]
    ELSE IF op = "resendOTP" THEN [redeems EXCEPT ![id] = 0]
    ELSE IF op = "verifyOTP" THEN [redeems EXCEPT ![id] = @ + 1]
    ELSE redeems

\* ------------------------------- handlers, one request at a time: store work
register(email, password, name, k) ==
    LET p == registerPlan(users, now, email, password, name, k)
        s == Commit(users, nextId, p)
    IN  /\ p.err = NoErr => nextId <= MaxUsers
        /\ Stored(p, s)
        /\ redeems' = Redeemed("register", nextId, p, s)
        /\ out' = registerOut(0, p, s)
        /\ UNCHANGED << now, token, reqs, started, nextNoteId >>

verifyOTP(email, otp) ==
    LET p == verifyOTPPlan(users, now, email, otp)
        s == Commit(users, nextId, p)
    IN  /\ Stored(p, s)
        /\ redeems' = Redeemed("verifyOTP", p.id, p, s)
        /\ out' = verifyOTPOut(0, p, s)
        /\ UNCHANGED << now, token, reqs, started, nextNoteId >>

login(email, password) ==
    LET p == loginPlan(users, email, password)
    IN  /\ out' = loginOut(0, p)
        /\ UNCHANGED << users, nextId, now, token, redeems, reqs, started, notes, nextNoteId >>

googleAuth(g) ==
    LET p == googleAuthPlan(users, g)
        s == Commit(users, nextId, p)
        uid == IF p.write = "insert" THEN nextId ELSE p.id
    IN  /\ (p.err = NoErr /\ p.write = "insert") => nextId <= MaxUsers
        /\ Stored(p, s)
        /\ out' = googleAuthOut(0, p, s, uid)
        /\ UNCHANGED << now, token, redeems, reqs, started, nextNoteId >>

resendOTP(email, k) ==
    LET p == resendOTPPlan(users, now, email, k)
        s == Commit(users, nextId, p)
    IN  /\ Stored(p, s)
        /\ redeems' = Redeemed("resendOTP", p.id, p, s)
        /\ out' = resendOTPOut(0, p, s)
        /\ UNCHANGED << now, token, reqs, started, nextNoteId >>

\* the routes behind router.use(authenticateToken), and what a request to
\* one can carry as its bearer token: the client's token, nothing, a string
\* that is no JWT, the client's token with another signature
Protected == {"updateProfile", "changePassword", "deleteAccount"}
Presented == {token, NoToken, Garbage, Forged(token)}

\* a protected route whose token authenticateToken turns down
unauthenticated(op, tok) ==
    /\ ~ authenticateToken(tok, now).ok
    /\ out' = Rejected(0, op, authenticateToken(tok, now))
    /\ UNCHANGED << users, nextId, now, token, redeems, reqs, started, notes, nextNoteId >>

\* the protected handlers, reached with req.user = the token's identity
updateProfile(tok, body) ==
    LET p == updateProfilePlan(users, users, tok.userId, body)
        s == Commit(users, nextId, p)
    IN  /\ authenticateToken(tok, now).ok
        /\ Stored(p, s)
        /\ out' = userOut(0, "updateProfile", p, s)
        /\ UNCHANGED << now, token, redeems, reqs, started, nextNoteId >>

changePassword(tok, currentPassword, newPassword) ==
    LET p == changePasswordPlan(users, tok.userId, currentPassword, newPassword)
        s == Commit(users, nextId, p)
    IN  /\ authenticateToken(tok, now).ok
        /\ Stored(p, s)
        /\ out' = userOut(0, "changePassword", p, s)
        /\ UNCHANGED << now, token, redeems, reqs, started, nextNoteId >>

deleteAccount(tok, password) ==
    LET p == deleteAccountPlan(users, tok.userId, password)
        s == Commit(users, nextId, p)
    IN  /\ authenticateToken(tok, now).ok
        /\ Stored(p, s)
        /\ out' = userOut(0, "deleteAccount", p, s)
        /\ UNCHANGED << now, token, redeems, reqs, started, nextNoteId >>

\* getProfile: the account of the token without password, otp and otpExpiry,
\* answered as toUserResponse() extended by stats (the counts by date are
\* left out, memberSince is the creation timestamp)
getProfile(tok) ==
    /\ authenticateToken(tok, now).ok
    /\ out' = IF tok.userId \notin DOMAIN users
              THEN Thrown(0, "getProfile", AppError(404, "USER_NOT_FOUND"))
              ELSE [Done(0, "getProfile", 200, NoId, None) EXCEPT
                       !.user = [f \in DOMAIN toUserResponse(tok.userId, users[tok.userId])
                                       \cup {"stats"} |->
                                   IF f = "stats"
                                   THEN [totalNotes |-> Cardinality(
                                             { n \in DOMAIN notes : notes[n].userId = tok.userId }),
                                         memberSince |-> "timestamp"]
                                   ELSE toUserResponse(tok.userId, users[tok.userId])[f]]]
    /\ UNCHANGED << users, nextId, now, token, redeems, reqs, started, notes, nextNoteId >>

\* ------------------------------------------------------------ note handlers
\* All note routes run behind router.use(authenticateToken); userId is
\* req.user.userId, the identity in the token.
NoteOps == {"getNotes", "getNoteById", "createNote", "updateNote", "deleteNote",
            "deleteAllNotes"}
CreateBodies == { [title |-> t, content |-> c] : t \in NoteTitles, c \in NoteContents }
\* updateNoteSchema: title and content optional, at least one of them
UpdateBodies ==
    { [title |-> t, content |-> c] : t \in NoteTitles \cup {None}, c \in NoteContents \cup {None} }
      \ { [title |-> None, content |-> None] }

\* findByUserIdAndNoteId reading the note by its id alone
findByUserIdAndNoteIdAnyOwner(ns, userId, noteId) ==
    IF noteId \in DOMAIN ns THEN noteId ELSE NoId

\* Note.findOne({ _id: noteId, userId }), also the filter of findOneAndDelete
findByUserIdAndNoteId(ns, userId, noteId) ==
    IF noteId \in DOMAIN ns /\ ns[noteId].userId = userId THEN noteId ELSE NoId

\* Note.find({ userId: req.user.userId }), no search, first page
getNotes(tok) ==
    /\ authenticateToken(tok, now).ok
    /\ out' = NoteDone(0, "getNotes", 200,
                       { toNoteResponse(n, notes[n]) :
                           n \in { m \in DOMAIN notes : notes[m].userId = tok.userId } })
    /\ UNCHANGED << users, nextId, now, token, redeems, reqs, started, notes, nextNoteId >>

getNoteById(tok, noteId) ==
    LET n == findByUserIdAndNoteId(notes, tok.userId, noteId)
    IN  /\ authenticateToken(tok, now).ok
        /\ out' = IF n = NoId
                  THEN Thrown(0, "getNoteById", AppError(404, "NOTE_NOT_FOUND"))
                  ELSE NoteDone(0, "getNoteById", 200, {toNoteResponse(n, notes[n])})
        /\ UNCHANGED << users, nextId, now, token, redeems, reqs, started, notes, nextNoteId >>

\* new Note({ title, content, userId: req.user.userId }).save(); the account
\* is not looked up
createNote(tok, body) ==
    LET note == [title |-> trim(body.title), content |-> trim(body.content),
                 userId |-> tok.userId]
    IN  /\ authenticateToken(tok, now).ok
        /\ nextNoteId <= MaxNotes
        /\ notes' = (nextNoteId :> note) @@ notes
        /\ nextNoteId' = nextNoteId + 1
        /\ out' = NoteDone(0, "createNote", 201, {toNoteResponse(nextNoteId, note)})
        /\ UNCHANGED << users, nextId, now, token, redeems, reqs, started >>

updateNote(tok, noteId, body) ==
    LET n == findByUserIdAndNoteId(notes, tok.userId, noteId)
        note == [notes[n] EXCEPT
                   !.title = IF body.title # None THEN trim(body.title) ELSE @,
                   !.content = IF body.content # None THEN trim(body.content) ELSE @]
    IN  /\ authenticateToken(tok, now).ok
        /\ IF n = NoId
           THEN /\ out' = Thrown(0, "updateNote", AppError(404, "NOTE_NOT_FOUND"))
                /\ UNCHANGED notes
           ELSE /\ notes' = [notes EXCEPT ![n] = note]
                /\ out' = NoteDone(0, "updateNote", 200, {toNoteResponse(n, note)})
        /\ UNCHANGED << users, nextId, now, token, redeems, reqs, started, nextNoteId >>

deleteNote(tok, noteId) ==
    LET n == findByUserIdAndNoteId(notes, tok.userId, noteId)
    IN  /\ authenticateToken(tok, now).ok
        /\ IF n = NoId
           THEN /\ out' = Thrown(0, "deleteNote", AppError(404, "NOTE_NOT_FOUND"))
                /\ UNCHANGED notes
           ELSE /\ notes' = [m \in DOMAIN notes \ {n} |-> notes[m]]
                /\ out' = NoteDone(0, "deleteNote", 200, {toNoteResponse(n, notes[n])})
        /\ UNCHANGED << users, nextId, now, token, redeems, reqs, started, nextNoteId >>

deleteAllNotes(tok) ==
    /\ authenticateToken(tok, now).ok
    /\ notes' = deleteMany(notes, tok.userId)
    /\ out' = NoteDone(0, "deleteAllNotes", 200, {})
    /\ UNCHANGED << users, nextId, now, token, redeems, reqs, started, nextNoteId >>

\* ------------------------------------------------- the answer and the client
\* The response goes out and the client takes it: one of Reply(out, mailOk,
\* now, env), by whether the mail the handler awaits is delivered and by
\* NODE_ENV.  Neither decides the token: AuthUtils.login stores the token the
\* response carries under the one localStorage key, replacing the token held
respond ==
    /\ out # NoOut
    /\ out' = NoOut
    /\ token' = IF Issued(out, now) = NoToken THEN token ELSE Issued(out, now)
    /\ UNCHANGED << users, nextId, now, redeems, reqs, started, notes, nextNoteId >>

\* AuthUtils.logout: the client drops its token
logout ==
    /\ token # NoToken
    /\ token' = NoToken
    /\ UNCHANGED << users, nextId, now, out, redeems, reqs, started, notes, nextNoteId >>

\* ------------------------------------------------------------- environment
Tick ==
    /\ out = NoOut
    /\ now + TickMinutes <= MaxTime
    /\ now' = now + TickMinutes
    /\ UNCHANGED << users, nextId, token, out, redeems, reqs, started, notes, nextNoteId >>

\* the clock in token lifetimes: it passes the expiry of every token issued
\* so far
Sleep ==
    /\ out = NoOut
    /\ now <= MaxTime
    /\ now' = MaxTime + TOKEN_TTL
    /\ UNCHANGED << users, nextId, token, out, redeems, reqs, started, notes, nextNoteId >>

\* the TTL index on otpExpiry (expireAfterSeconds: 0): MongoDB's TTL monitor
\* removes a document some time after its otpExpiry has passed
ttlExpire(id) ==
    /\ out = NoOut
    /\ id \in DOMAIN users
    /\ users[id].otpExpiry # NoExpiry
    /\ users[id].otpExpiry <= now
    /\ users' = Remove(users, id)
    /\ UNCHANGED << nextId, now, token, out, redeems, reqs, started, notes, nextNoteId >>

\* the client sends its next request once it has the answer to the last one
Serve ==
    \/ Quiet /\ \E e \in RawEmails, pw \in RegPasswords, n \in Names,
                    k \in 0 .. (RandDen - 1) : register(e, pw, n, k)
    \/ Quiet /\ \E e \in RawEmails, o \in OtpInputs : verifyOTP(e, o)
    \/ Quiet /\ \E e \in RawEmails, pw \in Passwords : login(e, pw)
    \/ Quiet /\ \E g \in GooglePayloads : googleAuth(g)
    \/ Quiet /\ \E e \in RawEmails, k \in 0 .. (RandDen - 1) : resendOTP(e, k)
    \/ Quiet /\ \E op \in Protected, tok \in Presented : unauthenticated(op, tok)
    \/ Quiet /\ \E tok \in Presented, b \in ProfileBodies : updateProfile(tok, b)
    \/ Quiet /\ \E tok \in Presented, c \in Passwords, n \in Passwords :
                    changePassword(tok, c, n)
    \/ Quiet /\ \E tok \in Presented, pw \in Passwords \cup {None} : deleteAccount(tok, pw)
    \/ Quiet /\ logout
    \/ respond
    \/ \E id \in Ids : ttlExpire(id)

Next == Serve \/ Tick

Spec == Init /\ [][Next]_vars

\* updateProfile bodies that leave the email address alone
NameBodies == { b \in ProfileBodies : b.email = None }

\* accounts and their notes: the handlers that create, sign in, show, change
\* the name of and delete an account, and the note handlers, one request at a
\* time
NextNotes ==
    \/ Quiet /\ \E e \in RawEmails, pw \in RegPasswords, n \in Names,
                    k \in 0 .. (RandDen - 1) : register(e, pw, n, k)
    \/ Quiet /\ \E e \in RawEmails, o \in OtpInputs : verifyOTP(e, o)
    \/ Quiet /\ \E e \in RawEmails, pw \in Passwords : login(e, pw)
    \/ Quiet /\ \E g \in GooglePayloads : googleAuth(g)
    \/ Quiet /\ \E op \in NoteOps \cup {"getProfile"}, tok \in Presented : unauthenticated(op, tok)
    \/ Quiet /\ \E tok \in Presented, b \in NameBodies : updateProfile(tok, b)
    \/ Quiet /\ \E tok \in Presented, pw \in Passwords \cup {None} : deleteAccount(tok, pw)
    \/ Quiet /\ \E tok \in Presented : getProfile(tok)
    \/ Quiet /\ \E tok \in Presented : getNotes(tok)
    \/ Quiet /\ \E tok \in Presented, n \in NoteIds : getNoteById(tok, n)
    \/ Quiet /\ \E tok \in Presented, b \in CreateBodies : createNote(tok, b)
    \/ Quiet /\ \E tok \in Presented, n \in NoteIds, b \in UpdateBodies : updateNote(tok, n, b)
    \/ Quiet /\ \E tok \in Presented, n \in NoteIds : deleteNote(tok, n)
    \/ Quiet /\ \E tok \in Presented : deleteAllNotes(tok)
    \/ respond

SpecNotes == Init /\ [][NextNotes]_vars

\* the same requests with the clock counted in token lifetimes
NextSession == Serve \/ Sleep

SpecSession == Init /\ [][NextSession]_vars

\* ------------------------------------------------- handlers, interleaved
\* A handler runs up to its store write in one step (its reads and checks),
\* and performs the write in a later step; other requests, the clock and the
\* TTL monitor run in between.  Answers go out one at a time.
Saving(r) == reqs[r].pc = "save"
Inserts == Cardinality({ r \in 1 .. MaxReq : Saving(r) /\ reqs[r].p.write = "insert" })

\* the outcome of handler op with plan p and store result s
Outcome(r, op, p, s) ==
    LET uid == IF p.write = "insert" THEN nextId ELSE p.id
    IN  CASE op = "register" -> registerOut(r, p, s)
          [] op = "verifyOTP" -> verifyOTPOut(r, p, s)
          [] op = "login" -> loginOut(r, p)
          [] op = "googleAuth" -> googleAuthOut(r, p, s, uid)
          [] op = "resendOTP" -> resendOTPOut(r, p, s)
          [] OTHER -> userOut(r, op, p, s)

\* a request takes the first idle slot
Free(r) == reqs[r] = Idle /\ \A q \in 1 .. (r - 1) : reqs[q] # Idle

\* request r has read the store and decided on plan p
Planned(r, op, p) ==
    /\ Free(r)
    /\ started < MaxOps
    /\ started' = started + 1
    /\ IF p.err # NoErr \/ p.write = "none"
       THEN /\ out = NoOut
            /\ out' = Outcome(r, op, p, [err |-> NoErr, users |-> users])
            /\ UNCHANGED reqs
       ELSE /\ p.write = "insert" => nextId + Inserts <= MaxUsers
            /\ reqs' = [reqs EXCEPT ![r] = [op |-> op, pc |-> "save", p |-> p]]
            /\ UNCHANGED out
    /\ UNCHANGED << users, nextId, now, token, redeems, notes, nextNoteId >>

cRegister(r, email, password, name, k) ==
    Planned(r, "register", registerPlan(users, now, email, password, name, k))

cVerifyOTP(r, email, otp) == Planned(r, "verifyOTP", verifyOTPPlan(users, now, email, otp))

cLogin(r, email, password) == Planned(r, "login", loginPlan(users, email, password))

cGoogleAuth(r, g) == Planned(r, "googleAuth", googleAuthPlan(users, g))

cResendOTP(r, email, k) == Planned(r, "resendOTP", resendOTPPlan(users, now, email, k))

cUnauthenticated(r, op, tok) ==
    /\ Free(r)
    /\ out = NoOut
    /\ ~ authenticateToken(tok, now).ok
    /\ started < MaxOps
    /\ started' = started + 1
    /\ out' = Rejected(r, op, authenticateToken(tok, now))
    /\ UNCHANGED << users, nextId, now, token, redeems, reqs, notes, nextNoteId >>

\* updateProfile reads twice when the e-mail changes: User.findById, then
\* User.findByEmail; the loaded account is kept in the request in between
cUpdateProfile(r, tok, body) ==
    LET mine == [i \in {tok.userId} \cap DOMAIN users |-> users[i]]
        p == updateProfilePlan(mine, << >>, tok.userId, body)
        changes == p.err = NoErr /\ "email" \in Modified(p.orig, p.doc)
    IN  /\ authenticateToken(tok, now).ok
        /\ IF changes
           THEN /\ Free(r)
                /\ started < MaxOps
                /\ started' = started + 1
                /\ reqs' = [reqs EXCEPT ![r] = [op |-> "updateProfile", pc |-> "findByEmail",
                                                mine |-> mine, userId |-> tok.userId,
                                                body |-> body]]
                /\ UNCHANGED << users, nextId, now, token, out, redeems, notes, nextNoteId >>
           ELSE Planned(r, "updateProfile", p)

cUpdateProfileCheck(r) ==
    /\ reqs[r].pc = "findByEmail"
    /\ LET p == updateProfilePlan(reqs[r].mine, users, reqs[r].userId, reqs[r].body)
       IN  IF p.err # NoErr
           THEN /\ out = NoOut
                /\ out' = Outcome(r, "updateProfile", p, [err |-> NoErr, users |-> users])
                /\ reqs' = [reqs EXCEPT ![r] = Idle]
           ELSE /\ reqs' = [reqs EXCEPT ![r] = [op |-> "updateProfile", pc |-> "save", p |-> p]]
                /\ UNCHANGED out
    /\ UNCHANGED << users, nextId, now, token, redeems, started, notes, nextNoteId >>

cChangePassword(r, tok, currentPassword, newPassword) ==
    /\ authenticateToken(tok, now).ok
    /\ Planned(r, "changePassword",
               changePasswordPlan(users, tok.userId, currentPassword, newPassword))

cDeleteAccount(r, tok, password) ==
    /\ authenticateToken(tok, now).ok
    /\ Planned(r, "deleteAccount", deleteAccountPlan(users, tok.userId, password))

\* request r performs its store write
cSave(r) ==
    LET p == reqs[r].p
        op == reqs[r].op
        s == Commit(users, nextId, p)
    IN  /\ Saving(r)
        /\ out = NoOut
        /\ Stored(p, s)
        /\ redeems' = Redeemed(op, IF op = "register" THEN nextId ELSE p.id, p, s)
        /\ out' = Outcome(r, op, p, s)
        /\ reqs' = [reqs EXCEPT ![r] = Idle]
        /\ UNCHANGED << now, token, started, nextNoteId >>

cTick ==
    /\ now + TickMinutes <= MaxTime
    /\ now' = now + TickMinutes
    /\ UNCHANGED << users, nextId, token, out, redeems, reqs, started, notes, nextNoteId >>

cTtlExpire(id) ==
    /\ id \in DOMAIN users
    /\ users[id].otpExpiry # NoExpiry
    /\ users[id].otpExpiry <= now
    /\ users' = Remove(users, id)
    /\ UNCHANGED << nextId, now, token, out, redeems, reqs, started, notes, nextNoteId >>

\* a request arrives, while the budget lasts, and runs up to its first store write
NextConc ==
    \/ started < MaxOps /\ \E r \in 1 .. MaxReq, e \in RawEmails, pw \in RegPasswords,
                               n \in Names, k \in 0 .. (RandDen - 1) :
                               cRegister(r, e, pw, n, k)
    \/ started < MaxOps /\ \E r \in 1 .. MaxReq, e \in RawEmails, o \in OtpInputs :
                               cVerifyOTP(r, e, o)
    \/ started < MaxOps /\ \E r \in 1 .. MaxReq, e \in RawEmails, pw \in Passwords :
                               cLogin(r, e, pw)
    \/ started < MaxOps /\ \E r \in 1 .. MaxReq, g \in GooglePayloads : cGoogleAuth(r, g)
    \/ started < MaxOps /\ \E r \in 1 .. MaxReq, e \in RawEmails, k \in 0 .. (RandDen - 1) :
                               cResendOTP(r, e, k)
    \/ started < MaxOps /\ \E r \in 1 .. MaxReq, op \in Protected, tok \in Presented :
                               cUnauthenticated(r, op, tok)
    \/ started < MaxOps /\ \E r \in 1 .. MaxReq, tok \in Presented, b \in ProfileBodies :
                               cUpdateProfile(r, tok, b)
    \/ started < MaxOps /\ \E r \in 1 .. MaxReq, tok \in Presented,
                               c \in Passwords, n \in Passwords :
                               cChangePassword(r, tok, c, n)
    \/ started < MaxOps /\ \E r \in 1 .. MaxReq, tok \in Presented,
                               pw \in Passwords \cup {None} :
                               cDeleteAccount(r, tok, pw)
    \/ \E r \in 1 .. MaxReq : cUpdateProfileCheck(r)
    \/ \E r \in 1 .. MaxReq : cSave(r)
    \/ respond
    \/ cTick
    \/ \E id \in Ids : cTtlExpire(id)

SpecConc == Init /\ [][NextConc]_vars

\* ----------------------------------------------------- the store by itself
\* The User model used directly: new User(fields).save(), a loaded document
\* changed and saved, findByIdAndDelete.
StoreDocs ==
    { [NewUser(e, pw, "Ann", g, v) EXCEPT !.otp = o, !.otpExpiry = IF o = NoOtp THEN NoExpiry ELSE OTP_TTL] :
        e \in RawEmails, pw \in {None, bcryptHash("secret1")}, g \in {None, "g1"},
        v \in BOOLEAN, o \in {NoOtp, RandomOtp(0)} }

storeCreate(doc) ==
    LET s == Insert(users, nextId, doc)
    IN  /\ nextId <= MaxUsers
        /\ users' = s.users
        /\ nextId' = IF s.err = NoErr THEN nextId + 1 ELSE nextId
        /\ out' = IF s.err = NoErr THEN Done(0, "save", 200, NoId, None)
                  ELSE Thrown(0, "save", s.err)
        /\ UNCHANGED << now, token, redeems, reqs, started, notes, nextNoteId >>

storeSave(id, doc) ==
    LET s == Update(users, id, users[id], doc)
    IN  /\ id \in DOMAIN users
        /\ users' = s.users
        /\ out' = IF s.err = NoErr THEN Done(0, "save", 200, NoId, None)
                  ELSE Thrown(0, "save", s.err)
        /\ UNCHANGED << nextId, now, token, redeems, reqs, started, notes, nextNoteId >>

storeDelete(id) ==
    /\ id \in DOMAIN users
    /\ users' = Remove(users, id)
    /\ out' = Done(0, "delete", 200, NoId, None)
    /\ UNCHANGED << nextId, now, token, redeems, reqs, started, notes, nextNoteId >>

NextStore ==
    \/ \E doc \in StoreDocs : storeCreate(doc)
    \/ \E id \in Ids, doc \in StoreDocs : storeSave(id, doc)
    \/ \E id \in Ids : storeDelete(id)

SpecStore == Init /\ [][NextStore]_vars

\* ------------------------------------------ refreshTokenMiddleware by itself
\* The middleware is exported and mounted on no route: it is run here on
\* every kind of Authorization header, at the times around the expiry of the
\* token and around the day before it.
IssueTimes == {0, MaxTime}
RefreshTokens ==
    {NoToken, Garbage}
      \cup { generateAccessToken(i, toLowerCase(e), t) :
                i \in Ids, e \in RawEmails, t \in IssueTimes }
      \cup { Forged(generateAccessToken(i, toLowerCase(e), t)) :
                i \in Ids, e \in RawEmails, t \in IssueTimes }
RefreshTimes ==
    { t + d : t \in IssueTimes,
              d \in {0, TOKEN_TTL - REFRESH_WINDOW - 1, TOKEN_TTL - REFRESH_WINDOW,
                     TOKEN_TTL - REFRESH_WINDOW + 1, TOKEN_TTL - 1, TOKEN_TTL,
                     TOKEN_TTL + 1} }

InitRefresh ==
    /\ users = << >>
    /\ nextId = 1
    /\ now \in RefreshTimes
    /\ token \in RefreshTokens
    /\ out = NoOut
    /\ redeems = [i \in Ids |-> 0]
    /\ reqs = [r \in 1 .. MaxReq |-> Idle]
    /\ started = 0
    /\ notes = << >>
    /\ nextNoteId = 1

\* a request carrying the client's token passes through the middleware
refresh ==
    LET r == refreshTokenMiddleware(token, now)
    IN  /\ out = NoOut
        /\ out' = [op |-> "refreshTokenMiddleware", nexts |-> r.nexts, sent |-> r.sent,
                   header |-> r.header]
        /\ UNCHANGED << users, nextId, now, token, redeems, reqs, started, notes, nextNoteId >>

\* the next handler has run and the response has left; no client code reads
\* the X-New-Token header
refreshed ==
    /\ out # NoOut
    /\ out' = NoOut
    /\ UNCHANGED << users, nextId, now, token, redeems, reqs, started, notes, nextNoteId >>

NextRefresh == refresh \/ refreshed

SpecRefresh == InitRefresh /\ [][NextRefresh]_vars

\* ================================================================== claims
\* accounts whose stored e-mail is the normalized form of e
ByEmail(us, e) == { i \in DOMAIN us : us[i].email = toLowerCase(e) }

\* the responses outcome o can be answered with at time t
Replies(o, t) == { Reply(o, m, t, env) : m \in BOOLEAN, env \in Envs }

\* outcome o is answered with this status and code, and without a token
Refused(o, t, status, code) ==
    \A r \in Replies(o, t) : r.status = status /\ r.code = code /\ r.token = NoToken

\* C1: in every reachable state, under any interleaving of register,
\* googleAuth and updateProfile e-mail changes, no two accounts share a
\* lowercase-normalized e-mail.
C1_OneAccountPerEmail ==
    \A i, j \in DOMAIN users :
        i # j => toLowerCase(users[i].email) # toLowerCase(users[j].email)

\* a write was turned down by the unique index while the e-mail is taken
C1_Witness ==
    /\ out.op \in {"register", "updateProfile"}
    /\ out.err = DuplicateKeyError
    /\ Refused(out, now, 400, "DUPLICATE_FIELD")
    /\ users # << >>

\* C2: register for an e-mail whose normalized form already has an account
\* answers 400 USER_EXISTS, creates nothing and leaves every account as it was.
C2_RegisterExisting ==
    [][ (Quiet /\ out'.op = "register") =>
          \A e \in RawEmails, pw \in RegPasswords, n \in Names, k \in 0 .. (RandDen - 1) :
             (ByEmail(users, e) # {} /\ register(e, pw, n, k))
               => /\ Refused(out', now', 400, "USER_EXISTS")
                  /\ users' = users
                  /\ nextId' = nextId ]_vars

\* register was refused for the e-mail of a verified or Google-linked account
C2_Witness ==
    /\ out.op = "register"
    /\ Refused(out, now, 400, "USER_EXISTS")
    /\ \E i \in DOMAIN users : users[i].googleId # None \/ users[i].isVerified

\* C3: with requests one at a time, verifyOTP with the stored code of an
\* unverified account before its expiry succeeds with a token; an OTP is
\* redeemed at most once; and verifyOTP on an account whose OTP has been
\* redeemed answers ALREADY_VERIFIED or INVALID_OTP.
C3_RedeemOnce ==
    [][ /\ \A i \in Ids : redeems'[i] <= 1
        /\ (Quiet /\ out'.op = "verifyOTP") =>
             \A e \in RawEmails, o \in OtpInputs : verifyOTP(e, o) =>
               /\ (\E i \in ByEmail(users, e) :
                      /\ ~ users[i].isVerified
                      /\ users[i].otp = o
                      /\ now < users[i].otpExpiry)
                    => \A r \in Replies(out', now') :
                          r.status = 200 /\ r.code = "OK" /\ r.token # NoToken
               /\ (\E i \in ByEmail(users, e) : redeems[i] >= 1)
                    => \A r \in Replies(out', now') :
                          r.code \in {"ALREADY_VERIFIED", "INVALID_OTP"} ]_vars

\* the only account was verified by its OTP and a further verifyOTP was refused
C3_Witness ==
    /\ out.op = "verifyOTP"
    /\ Refused(out, now, 400, "ALREADY_VERIFIED")
    /\ \E i \in DOMAIN users :
          DOMAIN users = {i} /\ redeems[i] = 1 /\ users[i].googleId = None

\* C4: verifyOTP with the stored code at or after the stored expiry answers
\* INVALID_OTP, issues no token and leaves the account unchanged.
C4_ExpiredIsInvalidOtp ==
    [][ (Quiet /\ out'.op = "verifyOTP") =>
        \A e \in RawEmails, o \in OtpInputs :
          (/\ \E i \in ByEmail(users, e) :
                 /\ users[i].otp = o
                 /\ users[i].otpExpiry # NoExpiry
                 /\ now >= users[i].otpExpiry
           /\ verifyOTP(e, o))
            => /\ Refused(out', now', 400, "INVALID_OTP")
               /\ users' = users ]_vars

\* C5: verifyOTP fails in a fixed order: no account -> 404 USER_NOT_FOUND;
\* verified account -> 400 ALREADY_VERIFIED whatever the code; code absent,
\* different or expired -> 400 INVALID_OTP; a failing call changes no account
\* and issues no token.
C5_VerifyPrecedence ==
    [][ (Quiet /\ out'.op = "verifyOTP") =>
        /\ \A r \in Replies(out', now') :
               r.code # "OK" => (users' = users /\ r.token = NoToken)
        /\ \A e \in RawEmails, o \in OtpInputs : verifyOTP(e, o) =>
            /\ ByEmail(users, e) = {} => Refused(out', now', 404, "USER_NOT_FOUND")
            /\ \A i \in ByEmail(users, e) :
                 /\ users[i].isVerified => Refused(out', now', 400, "ALREADY_VERIFIED")
                 /\ (/\ ~ users[i].isVerified
                     /\ \/ users[i].otp # o
                        \/ users[i].otpExpiry = NoExpiry
                        \/ now >= users[i].otpExpiry)
                      => Refused(out', now', 400, "INVALID_OTP") ]_vars

\* a verified account still holding an unexpired code was answered ALREADY_VERIFIED
C5_Witness ==
    /\ out.op = "verifyOTP"
    /\ Refused(out, now, 400, "ALREADY_VERIFIED")
    /\ \E i \in DOMAIN users :
          /\ DOMAIN users = {i}
          /\ users[i].isVerified
          /\ users[i].otp # NoOtp
          /\ now < users[i].otpExpiry

\* C6: between requests, a verified account holds no OTP code and no expiry.
C6_VerifiedHasNoOtp ==
    \A i \in DOMAIN users :
        users[i].isVerified => (users[i].otp = NoOtp /\ users[i].otpExpiry = NoExpiry)

\* C7: an account's verification flag goes from true to false only in an
\* updateProfile call that changes its e-mail address.
C7_FlagMonotonic ==
    [][ \A i \in DOMAIN users \cap DOMAIN users' :
          (users[i].isVerified /\ ~ users'[i].isVerified)
            => /\ users'[i].email # users[i].email
               /\ \E b \in ProfileBodies :
                     updateProfile(token, b) /\ token.userId = i /\ b.email # None ]_vars

\* an account that Google verified is unverified after changing its e-mail
C7_Witness ==
    /\ out.op = "updateProfile"
    /\ out.code = "OK"
    /\ \E i \in DOMAIN users : ~ users[i].isVerified /\ users[i].googleId # None

\* C8: every stored account has a password hash or a googleId, and saving a
\* document with neither fails and leaves the collection unchanged.
C8_AuthMethodPresent ==
    [][ /\ \A i \in DOMAIN users' :
             users'[i].password # None \/ users'[i].googleId # None
        /\ \A doc \in StoreDocs :
             (doc.password = None /\ doc.googleId = None)
               => /\ storeCreate(doc) => (users' = users /\ out'.err # NoErr)
                  /\ \A id \in DOMAIN users :
                       storeSave(id, doc) => (users' = users /\ out'.err # NoErr) ]_vars

\* a save was refused by the hook while the collection holds accounts
C8_Witness ==
    /\ out.op = "save"
    /\ out.err = PreSaveError
    /\ users # << >>

\* C9: login with the right password on an unverified account answers
\* 400 EMAIL_NOT_VERIFIED and issues no token.
C9_UnverifiedLogin ==
    [][ (Quiet /\ out'.op = "login") =>
        \A e \in RawEmails, pw \in Passwords :
          (/\ \E i \in ByEmail(users, e) :
                 users[i].password = bcryptHash(pw) /\ ~ users[i].isVerified
           /\ login(e, pw))
            => Refused(out', now', 400, "EMAIL_NOT_VERIFIED") ]_vars

\* an account left unverified by an e-mail change was refused at login
C9_Witness ==
    /\ out.op = "login"
    /\ Refused(out, now, 400, "EMAIL_NOT_VERIFIED")
    /\ \E i \in DOMAIN users :
          DOMAIN users = {i} /\ users[i].otp = NoOtp /\ ~ users[i].isVerified

\* C10: login on an account that has a googleId and no password hash
\* answers 400 GOOGLE_LOGIN_REQUIRED for every password and issues no token.
C10_GoogleOnlyLogin ==
    [][ (Quiet /\ out'.op = "login") =>
        \A e \in RawEmails, pw \in Passwords :
          (/\ \E i \in ByEmail(users, e) :
                 users[i].googleId # None /\ users[i].password = None
           /\ login(e, pw))
            => Refused(out', now', 400, "GOOGLE_LOGIN_REQUIRED") ]_vars

\* a Google-only account, still without a password hash, was refused at login
C10_Witness ==
    /\ out.op = "login"
    /\ Refused(out, now, 400, "GOOGLE_LOGIN_REQUIRED")
    /\ \E i \in DOMAIN users : users[i].googleId # None /\ users[i].password = None

\* outcomes o1 and o2 are answered alike at time t: same status, code,
\* message and token, whatever the mail delivery and NODE_ENV
SameAnswer(o1, o2, t) ==
    \A m \in BOOLEAN, env \in Envs :
        /\ Reply(o1, m, t, env).status = Reply(o2, m, t, env).status
        /\ Reply(o1, m, t, env).code = Reply(o2, m, t, env).code
        /\ Reply(o1, m, t, env).error = Reply(o2, m, t, env).error
        /\ Reply(o1, m, t, env).token = Reply(o2, m, t, env).token

\* the outcome of login for an e-mail that has no account
NoAccountLogin(e, pw) == loginOut(0, loginPlan(<< >>, e, pw))

\* C11 (as stated): login with a password that is not the account's password
\* is answered exactly as login for an e-mail without account, with
\* 401 INVALID_CREDENTIALS, whatever the account.
C11_NoExistenceLeak ==
    [][ (Quiet /\ out'.op = "login") =>
        \A e \in RawEmails, pw \in Passwords :
          (/\ \E i \in ByEmail(users, e) : users[i].password # bcryptHash(pw)
           /\ login(e, pw))
            => /\ Refused(out', now', 401, "INVALID_CREDENTIALS")
               /\ SameAnswer(out', NoAccountLogin(e, pw), now') ]_vars

\* C11 (amended): login on an account that has a password hash, with a
\* password that does not match it, is answered exactly as login for an e-mail
\* without account, with 401 INVALID_CREDENTIALS, verified or not.
C11_NoLeakWithPasswordHash ==
    [][ (Quiet /\ out'.op = "login") =>
        \A e \in RawEmails, pw \in Passwords :
          (/\ \E i \in ByEmail(users, e) :
                 users[i].password # None /\ users[i].password # bcryptHash(pw)
           /\ login(e, pw))
            => /\ Refused(out', now', 401, "INVALID_CREDENTIALS")
               /\ SameAnswer(out', NoAccountLogin(e, pw), now') ]_vars

\* every e-mail has an account with a password hash, one of them unverified,
\* and a login was turned down with INVALID_CREDENTIALS
C11_Witness ==
    /\ out.op = "login"
    /\ Refused(out, now, 401, "INVALID_CREDENTIALS")
    /\ \A e \in RawEmails : ByEmail(users, e) # {}
    /\ \A i \in DOMAIN users : users[i].password # None
    /\ \E i \in DOMAIN users : ~ users[i].isVerified

\* C12: after a successful googleAuth whose asserted e-mail has an account,
\* that account has a googleId and is verified, and the set of accounts is
\* the same as before.
C12_LinkVerifies ==
    [][ (Quiet /\ out'.op = "googleAuth" /\ out'.err = NoErr) =>
        \A g \in GooglePayloads :
          (g.kind = "ok" /\ ByEmail(users, g.email) # {} /\ googleAuth(g))
            => /\ DOMAIN users' = DOMAIN users
               /\ \A i \in ByEmail(users, g.email) :
                     users'[i].googleId # None /\ users'[i].isVerified ]_vars

\* C13: a successful googleAuth whose asserted e-mail has no account adds
\* exactly one account, with the normalized e-mail, the asserted subject id,
\* verified, without password hash and without OTP, and changes no other; it
\* answers 200 with a token for that account whether or not the welcome mail
\* is delivered, and answering leaves the collection as it is.
C13_GoogleCreates ==
    [][ /\ (Quiet /\ out'.op = "googleAuth" /\ out'.err = NoErr) =>
             \A g \in GooglePayloads :
               (g.kind = "ok" /\ ByEmail(users, g.email) = {} /\ googleAuth(g))
                 => /\ nextId \notin DOMAIN users
                    /\ DOMAIN users' = DOMAIN users \cup {nextId}
                    /\ \A i \in DOMAIN users : users'[i] = users[i]
                    /\ users'[nextId] =
                         [ email |-> toLowerCase(g.email), password |-> None,
                           name |-> g.name, isVerified |-> TRUE, googleId |-> g.sub,
                           otp |-> NoOtp, otpExpiry |-> NoExpiry ]
                    /\ \A r \in Replies(out', now') :
                          /\ r.status = 200
                          /\ r.code = "OK"
                          /\ r.token = generateAccessToken(nextId, toLowerCase(g.email), now')
        /\ (out.op = "googleAuth" /\ out' = NoOut) => users' = users ]_vars

\* googleAuth has just created a verified account without password hash
\* beside an account that was there before
C13_Witness ==
    /\ out.op = "googleAuth"
    /\ out.err = NoErr
    /\ out.userId = nextId - 1
    /\ Cardinality(DOMAIN users) = 2
    /\ out.userId \in DOMAIN users
    /\ users[out.userId].password = None
    /\ users[out.userId].isVerified
    /\ \A r \in Replies(out, now) : r.status = 200 /\ r.token # NoToken

\* C14: googleAuth with an assertion that does not verify answers
\* 400 INVALID_GOOGLE_TOKEN, issues no token and changes no account.
C14_BadAssertionIs400 ==
    [][ (Quiet /\ out'.op = "googleAuth") =>
        \A g \in GooglePayloads :
          (g.kind = "bad" /\ googleAuth(g))
            => /\ Refused(out', now', 400, "INVALID_GOOGLE_TOKEN")
               /\ users' = users
               /\ nextId' = nextId ]_vars

\* C15: a register that has saved its account answers 201 whether or not the
\* OTP mail is delivered, and the new unverified account with its OTP code
\* and expiry is in the collection before and after the answer.
C15_RegisterSurvivesMailFailure ==
    [][ /\ (Quiet /\ out'.op = "register" /\ out'.err = NoErr) =>
             \A e \in RawEmails, pw \in RegPasswords, n \in Names, k \in 0 .. (RandDen - 1) :
               register(e, pw, n, k)
                 => /\ \A m \in BOOLEAN, env \in Envs :
                          Reply(out', m, now', env).status = 201
                    /\ nextId \in DOMAIN users'
                    /\ users'[nextId] =
                         [ email |-> toLowerCase(e), password |-> bcryptHash(pw),
                           name |-> n, isVerified |-> FALSE, googleId |-> None,
                           otp |-> RandomOtp(k), otpExpiry |-> now + OTP_TTL ]
        /\ (out.op = "register" /\ out' = NoOut) => users' = users ]_vars

\* register has saved an unverified account holding its OTP pair, and the
\* answer with the mail undelivered is 201
C15_Witness ==
    /\ out.op = "register"
    /\ out.err = NoErr
    /\ \A env \in Envs : Reply(out, FALSE, now, env).status = 201
    /\ \E i \in DOMAIN users :
          /\ i = nextId - 1
          /\ ~ users[i].isVerified
          /\ users[i].otp # NoOtp
          /\ users[i].otpExpiry = now + OTP_TTL

\* what a verifyOTP request for e with code o is answered in collection us at
\* time t, before the response is formatted
VerifyAnswer(us, t, e, o) ==
    verifyOTPOut(0, verifyOTPPlan(us, t, e, o), Commit(us, NoId, verifyOTPPlan(us, t, e, o)))

\* the times a code issued at t is tried at: at once, just before its expiry,
\* at its expiry
TryTimes(t) == {t, t + OTP_TTL - 1, t + OTP_TTL}

\* C16 (as stated): after a successful resendOTP on an unverified account that
\* held a code, verifyOTP with the code held before answers INVALID_OTP.
C16_PreviousCodeInvalid ==
    [][ (Quiet /\ out'.op = "resendOTP" /\ out'.err = NoErr) =>
        \A e \in RawEmails, k \in 0 .. (RandDen - 1) :
          resendOTP(e, k) =>
            \A i \in ByEmail(users, e) :
               users[i].otp # NoOtp =>
                 \A t \in TryTimes(now) :
                    VerifyAnswer(users', t, e, users[i].otp).err = AppError(400, "INVALID_OTP") ]_vars

\* C16 (amended): after a successful resendOTP on an unverified account the
\* account holds the newly generated code with expiry now + 10 minutes; on
\* the account as resendOTP left it, verifyOTP with any other code, the
\* previous one included when it differs, or at or after that expiry, answers
\* INVALID_OTP, and verifyOTP with the new code before the expiry verifies
\* the account.
C16_OnlyNewCodeVerifies ==
    [][ (Quiet /\ out'.op = "resendOTP" /\ out'.err = NoErr) =>
        \A e \in RawEmails, k \in 0 .. (RandDen - 1) :
          resendOTP(e, k) =>
            \A i \in ByEmail(users, e) :
               /\ users'[i].otp = RandomOtp(k)
               /\ users'[i].otpExpiry = now + OTP_TTL
               /\ \A t \in TryTimes(now), o \in OtpInputs \cup ({users[i].otp} \ {NoOtp}) :
                    IF o = RandomOtp(k) /\ t < now + OTP_TTL
                    THEN /\ VerifyAnswer(users', t, e, o).err = NoErr
                         /\ VerifyAnswer(users', t, e, o).userId = i
                    ELSE VerifyAnswer(users', t, e, o).err = AppError(400, "INVALID_OTP") ]_vars

\* after the clock moved, resendOTP has stored a new code and expiry on the
\* only account there ever was
C16_Witness ==
    /\ out.op = "resendOTP"
    /\ out.err = NoErr
    /\ now > 0
    /\ \E i \in DOMAIN users :
          /\ DOMAIN users = {i}
          /\ nextId = i + 1
          /\ users[i].otp = RandomOtp(1)
          /\ users[i].otpExpiry = now + OTP_TTL

\* C17: when the OTP mail of a resendOTP that saved its code is not
\* delivered, the response is 500 EMAIL_SEND_FAILED under every NODE_ENV.
C17_MailFailureCode ==
    (out.op = "resendOTP" /\ out.err = NoErr) =>
        \A env \in Envs :
            /\ Reply(out, FALSE, now, env).status = 500
            /\ Reply(out, FALSE, now, env).code = "EMAIL_SEND_FAILED"

\* C18: a protected request that authenticateToken turns down is answered
\* 401 MISSING_TOKEN without bearer token, 403 TOKEN_EXPIRED with a token of
\* valid signature at or past its expiry, and 403 INVALID_TOKEN with any other
\* invalid token (bad signature, no JWT structure).
C18_TokenRejections ==
    [][ (Quiet /\ out'.op \in Protected) =>
        \A op \in Protected, tok \in Presented :
          unauthenticated(op, tok) =>
            /\ tok = NoToken => Refused(out', now', 401, "MISSING_TOKEN")
            /\ (tok.sig = "valid" /\ now >= tok.exp)
                 => Refused(out', now', 403, "TOKEN_EXPIRED")
            /\ tok.sig \in {"forged", "malformed"}
                 => Refused(out', now', 403, "INVALID_TOKEN") ]_vars

\* token tok is one JWT_SECRET signed and its expiry lies after t
TokenVerifies(tok, t) == tok.sig = "valid" /\ t < tok.exp

\* the step runs a protected handler with req.user = the identity in tok
ProtectedStep(tok) ==
    \/ out'.op = "updateProfile" /\ \E b \in ProfileBodies : updateProfile(tok, b)
    \/ out'.op = "changePassword" /\ \E c \in Passwords, n \in Passwords : changePassword(tok, c, n)
    \/ out'.op = "deleteAccount" /\ \E pw \in Passwords \cup {None} : deleteAccount(tok, pw)

\* the codes authenticateToken answers with
AuthCodes == {"MISSING_TOKEN", "TOKEN_EXPIRED", "MALFORMED_TOKEN", "INVALID_TOKEN", "AUTH_ERROR"}

\* C19: a request to a protected route either is answered by authenticateToken
\* with an error, for a token that does not verify, and then no handler runs
\* and no account changes; or its token verifies and one handler runs, acting
\* on the account the token names and on no other.  No handler runs for a
\* token that does not verify.
C19_AuthGate ==
    [][ (Quiet /\ out'.op \in Protected) =>
          /\ IF out'.code \in AuthCodes
             THEN /\ users' = users
                  /\ nextId' = nextId
                  /\ \E tok \in Presented :
                        ~ TokenVerifies(tok, now) /\ unauthenticated(out'.op, tok)
                  /\ \A tok \in Presented : ~ ProtectedStep(tok)
             ELSE /\ \E tok \in Presented :
                        /\ TokenVerifies(tok, now)
                        /\ ProtectedStep(tok)
                        /\ \A i \in DOMAIN users \ {tok.userId} :
                              i \in DOMAIN users' /\ users'[i] = users[i]
                  /\ \A op \in Protected, tok \in Presented : ~ unauthenticated(op, tok)
          /\ \A tok \in Presented : ~ TokenVerifies(tok, now) => ~ ProtectedStep(tok) ]_vars

\* the client's own token has expired and its protected request was refused
\* while the account it names is still there
C19_Witness ==
    /\ out.op \in Protected
    /\ Refused(out, now, 403, "TOKEN_EXPIRED")
    /\ token.sig = "valid"
    /\ now >= token.exp
    /\ token.userId \in DOMAIN users

\* C20: whether authenticateToken accepts a token depends on the token and
\* the time only: in every state of the store a presented token is accepted
\* exactly when its signature is valid and its expiry lies ahead, so no
\* protected request is turned down for a token that verifies, also after
\* the account was deleted or its e-mail or password changed.
C20_StatelessTokens ==
    [][ /\ \A tok \in Presented :
             authenticateToken(tok, now).ok <=> TokenVerifies(tok, now)
        /\ (Quiet /\ out'.op \in Protected /\ out'.code \in AuthCodes) =>
             \A tok \in Presented :
                unauthenticated(out'.op, tok) => ~ TokenVerifies(tok, now) ]_vars

\* the account was deleted, and a later request with the token issued before
\* got past authenticateToken: the handler ran and found no account
C20_Witness ==
    /\ out.op \in Protected
    /\ out.err = AppError(404, "USER_NOT_FOUND")
    /\ TokenVerifies(token, now)
    /\ token.userId \notin DOMAIN users

\* the step answers a request with a newly signed token
IssuesToken == out # NoOut /\ out' = NoOut /\ Issued(out, now) # NoToken

CheckTimes(t, e) == {t, t + 1, e - 1, e, e + 1, e + TOKEN_TTL}

\* C22: a token signed at time t expires at t + 7 days; verifyToken resolves
\* at every time before the expiry and rejects with TokenExpiredError at
\* every time after it; with an altered signature it rejects with
\* JsonWebTokenError at every time.
C22_TokenExpiry ==
    [][ IssuesToken =>
          /\ token'.exp = now + 7 * 24 * 60
          /\ \A t \in CheckTimes(now, token'.exp) :
                /\ t < token'.exp => verifyToken(token', t).err = None
                /\ t > token'.exp => verifyToken(token', t).err = "TokenExpiredError"
                /\ verifyToken(Forged(token'), t).err = "JsonWebTokenError" ]_vars

\* the clock has passed the expiry of the token the client holds: it is
\* turned down as expired, and as invalid once its signature is altered
C22_Witness ==
    /\ token.sig = "valid"
    /\ now > token.exp
    /\ verifyToken(token, now).err = "TokenExpiredError"
    /\ verifyToken(Forged(token), now).err = "JsonWebTokenError"

\* C25: an account leaves the store only in the step in which deleteAccount
\* succeeds for it; no other handler and no passage of time removes one.
C25_OnlyDeleteRemoves ==
    [][ \A i \in DOMAIN users :
          i \notin DOMAIN users' =>
             /\ out'.op = "deleteAccount"
             /\ out'.err = NoErr
             /\ out'.code = "OK"
             /\ \E tok \in Presented : tok.userId = i /\ TokenVerifies(tok, now) ]_vars

\* the codes generateOTP can store on doc at time t, over the values of
\* Math.random()
GeneratedOtps(doc, t) == { generateOTP(doc, t, k).otp : k \in 0 .. (RandDen - 1) }

\* C27: the code generateOTP stores is a string of six decimal digits, its
\* expiry is the current time plus 10 minutes, and the code can be any value
\* from 000000 to 999999: a code with a leading zero is among the codes it
\* can store.
C27_GenerateOTP ==
    [][ (Quiet /\ out'.op = "register" /\ out'.err = NoErr) =>
          \A i \in DOMAIN users' \ DOMAIN users :
             /\ Len(users'[i].otp) = 6
             /\ \A d \in 1 .. 6 : users'[i].otp[d] \in 0 .. 9
             /\ users'[i].otpExpiry = now + 10
             /\ users'[i].otp \in GeneratedOtps(users'[i], now)
             /\ \E c \in GeneratedOtps(users'[i], now) : c[1] = 0 ]_vars

\* the response to the error the handler has thrown, with NODE_ENV = production
ProdReply(o) == Reply(o, TRUE, now, "production")

\* the generic answer of sendErrorProd
Generic(r) ==
    /\ r.status = 500
    /\ r.code = "INTERNAL_SERVER_ERROR"
    /\ r.error = "Something went wrong on the server"

\* the error has its own status, and the answer carries it with the error's
\* message and code
OwnAnswer(err, r) ==
    (0 < err.statusCode /\ err.statusCode < 500) =>
        (r.status = err.statusCode /\ r.error = err.message /\ r.code = err.code)

\* the error types globalErrorHandler replaces by a 4xx AppError
Translated(err) ==
    \/ err.name \in {"CastError", "ValidationError", "JsonWebTokenError", "TokenExpiredError"}
    \/ err.code = "11000"

UniqueRejects(r) ==
    /\ Saving(r)
    /\ Commit(users, nextId, reqs[r].p).err = DuplicateKeyError
    /\ cSave(r)

\* C29: whenever the unique e-mail index turns a write down, the write is not
\* stored, the account written before with that e-mail stays, and the caller
\* is answered with a 4xx duplicate error, never with a 5xx error.
C29_DuplicateIs400 ==
    [][ \A r \in 1 .. MaxReq :
          UniqueRejects(r) =>
             /\ users' = users
             /\ \E j \in DOMAIN users : users[j].email = reqs[r].p.doc.email
             /\ \A a \in Replies(out', now') :
                   a.status \in 400 .. 499 /\ a.code = "DUPLICATE_FIELD" ]_vars

\* request r, a verifyOTP call that found its code valid, saves in this step
VerifySaves(r) == Saving(r) /\ reqs[r].op = "verifyOTP" /\ cSave(r)

\* C28: of two verifyOTP calls that both read the same unverified account
\* and found the same code valid, the first to save succeeds; the second,
\* saving onto what the first stored, succeeds or fails with INVALID_OTP or
\* ALREADY_VERIFIED and with no other error; after either save the account
\* is verified and holds no OTP code and no expiry.
C28_ConcurrentVerify ==
    [][ \A r \in 1 .. MaxReq :
          (/\ VerifySaves(r)
           /\ reqs[r].p.id \in DOMAIN users
           /\ users[reqs[r].p.id] \in {reqs[r].p.orig, reqs[r].p.doc}) =>
             /\ \/ \A a \in Replies(out', now') : a.status = 200 /\ a.token # NoToken
                \/ Refused(out', now', 400, "INVALID_OTP")
                \/ Refused(out', now', 400, "ALREADY_VERIFIED")
             /\ users[reqs[r].p.id] = reqs[r].p.orig =>
                   \A a \in Replies(out', now') : a.status = 200
             /\ users'[reqs[r].p.id].isVerified
             /\ users'[reqs[r].p.id].otp = NoOtp
             /\ users'[reqs[r].p.id].otpExpiry = NoExpiry ]_vars

\* two verifyOTP calls have redeemed the same code: the second has saved
\* onto the account the first had verified, and is answered 200
C28_Witness ==
    /\ out.op = "verifyOTP"
    /\ out.err = NoErr
    /\ out.userId \in DOMAIN users
    /\ redeems[out.userId] = 2
    /\ users[out.userId].isVerified
    /\ users[out.userId].otp = NoOtp

\* the step runs a note handler with req.user = the identity in tok
NoteStep(tok) ==
    \/ out'.op = "getNotes" /\ getNotes(tok)
    \/ out'.op = "getNoteById" /\ \E n \in NoteIds : getNoteById(tok, n)
    \/ out'.op = "createNote" /\ \E b \in CreateBodies : createNote(tok, b)
    \/ out'.op = "updateNote" /\ \E n \in NoteIds, b \in UpdateBodies : updateNote(tok, n, b)
    \/ out'.op = "deleteNote" /\ \E n \in NoteIds : deleteNote(tok, n)
    \/ out'.op = "deleteAllNotes" /\ deleteAllNotes(tok)

\* the step is a request of tok's caller for the single note n
NoteRequest(tok, n) ==
    \/ out'.op = "getNoteById" /\ getNoteById(tok, n)
    \/ out'.op = "updateNote" /\ \E b \in UpdateBodies : updateNote(tok, n, b)
    \/ out'.op = "deleteNote" /\ deleteNote(tok, n)

\* C23: the owner of a note is the account id of the token it was created
\* with and never changes; a note handler shows, changes and deletes only
\* notes whose owner is the account id of the caller's token; a request for
\* the note of another account is answered 404 NOTE_NOT_FOUND and leaves
\* that note as it is.
C23_NoteIsolation ==
    [][ /\ \A n \in DOMAIN notes \cap DOMAIN notes' : notes'[n].userId = notes[n].userId
        /\ (Quiet /\ out'.op \in NoteOps /\ out'.code \notin AuthCodes) =>
              \A tok \in Presented : NoteStep(tok) =>
                 /\ \A n \in DOMAIN notes' \ DOMAIN notes : notes'[n].userId = tok.userId
                 /\ \A n \in DOMAIN notes :
                       notes[n].userId # tok.userId =>
                          /\ n \in DOMAIN notes'
                          /\ notes'[n] = notes[n]
                          /\ \A a \in Replies(out', now') : \A d \in a.data : d.id # n
                          /\ NoteRequest(tok, n) => Refused(out', now', 404, "NOTE_NOT_FOUND") ]_vars

\* the caller, signed in to an account of its own, asked for the note of
\* another account and was answered NOTE_NOT_FOUND; the note is still there
C23_Witness ==
    /\ out.op \in {"getNoteById", "updateNote", "deleteNote"}
    /\ Refused(out, now, 404, "NOTE_NOT_FOUND")
    /\ TokenVerifies(token, now)
    /\ token.userId \in DOMAIN users
    /\ \A n \in NoteIds : n \in DOMAIN notes /\ notes[n].userId \in DOMAIN users \ {token.userId}

\* C24: once deleteAccount has succeeded for an account, no note owned by
\* that account is in the store in any later state: every note is owned by an
\* account that is in the store.
C24_NoOrphanNotes ==
    \A n \in DOMAIN notes : notes[n].userId \in DOMAIN users

\* the fields of the public account projection, and the fields kept secret
PublicFields == {"id", "email", "name", "isVerified", "createdAt"}
SecretFields == {"password", "otp", "otpExpiry"}

\* C26 (as stated): the account object of every response has no field other
\* than id, email, name, isVerified and createdAt, and so neither password,
\* otp nor otpExpiry.
C26_PublicProjection ==
    \A a \in Replies(out, now) :
        a.user # NoUser =>
            /\ DOMAIN a.user \subseteq PublicFields
            /\ DOMAIN a.user \cap SecretFields = {}

\* C26 (amended): the same, except that the account object of getProfile
\* has one more field, stats, holding note counts and the creation date.
C26_PublicProjectionWithStats ==
    \A a \in Replies(out, now) :
        a.user # NoUser =>
            /\ DOMAIN a.user \subseteq
                   PublicFields \cup (IF a.op = "getProfile" THEN {"stats"} ELSE {})
            /\ DOMAIN a.user \cap SecretFields = {}
            /\ a.op = "getProfile" =>
                   DOMAIN a.user.stats \subseteq {"totalNotes", "notesThisMonth", "memberSince"}

\* a response shows an account that holds a password hash and an OTP code
C26_Witness ==
    /\ out.user # NoUser
    /\ out.user.id \in DOMAIN users
    /\ users[out.user.id].password # None
    /\ users[out.user.id].otp # NoOtp
    /\ \E a \in Replies(out, now) : a.user = out.user

\* C31: a verifyOTP call whose save succeeds sets isVerified and unsets otp
\* and otpExpiry in that one write, which changes no other account and is in
\* the store when the token is signed; the user in its response has
\* isVerified = true, and the response is the same whether or not the welcome
\* mail is delivered; answering changes no account.  A verifyOTP call whose
\* save fails changes no account and is answered without a token.
C31_VerifyWrite ==
    [][ /\ (out.op = "verifyOTP" /\ respond) => users' = users
        /\ \A r \in 1 .. MaxReq : VerifySaves(r) =>
             LET id == reqs[r].p.id
             IN  IF out'.err = NoErr
                 THEN /\ DOMAIN users' = DOMAIN users
                      /\ id \in DOMAIN users'
                      /\ users'[id].isVerified
                      /\ users'[id].otp = NoOtp
                      /\ users'[id].otpExpiry = NoExpiry
                      /\ \A i \in DOMAIN users \ {id} : users'[i] = users[i]
                      /\ out'.user.id = id
                      /\ out'.user.isVerified
                      /\ \A a \in Replies(out', now') :
                            /\ a = Reply(out', TRUE, now', "production")
                                 \/ a = Reply(out', TRUE, now', "development")
                            /\ a.status = 200
                            /\ a.token # NoToken
                            /\ a.token.userId = id
                 ELSE /\ users' = users
                      /\ \A a \in Replies(out', now') : a.status # 200 /\ a.token = NoToken ]_vars

\* a verifyOTP call has saved and is about to be answered with its token
C31_Witness ==
    /\ out.op = "verifyOTP"
    /\ out.err = NoErr
    /\ out.userId \in DOMAIN users
    /\ redeems[out.userId] = 1
    /\ users[out.userId].isVerified
    /\ out.user.isVerified
    /\ \A a \in Replies(out, now) : a.token # NoToken

\* C32: a resendOTP call and a verifyOTP call that both read the same
\* unverified account do not both succeed: a resendOTP call saving onto the
\* account a verifyOTP call has verified since the code was issued is not
\* answered 200 and does not leave the account verified with an OTP code, and
\* a verifyOTP call saving onto an account whose code was replaced since it
\* read it is not answered 200.
C32_VerifyResendSerial ==
    [][ \A r \in 1 .. MaxReq :
          (Saving(r) /\ cSave(r) /\ reqs[r].p.id \in DOMAIN users) =>
             LET id == reqs[r].p.id
             IN  /\ (/\ reqs[r].op = "resendOTP"
                     /\ users[id].isVerified
                     /\ redeems[id] >= 1) =>
                       /\ \A a \in Replies(out', now') : a.status # 200
                       /\ ~ (users'[id].isVerified /\ users'[id].otp # NoOtp)
                 /\ (/\ reqs[r].op = "verifyOTP"
                     /\ ~ users[id].isVerified
                     /\ users[id].otp # reqs[r].p.orig.otp) =>
                       \A a \in Replies(out', now') : a.status # 200 ]_vars

\* C33: an updateProfile call whose body carries an e-mail address that is,
\* lowercased, not the account's and not that of any account succeeds, stores
\* the lowercased address, sets isVerified to false and leaves otp and
\* otpExpiry as they were; an updateProfile call that succeeds with a body
\* carrying no e-mail, or the account's own, leaves email, isVerified, otp and
\* otpExpiry as they were.
C33_EmailChangeKeepsOtp ==
    [][ (Quiet /\ out'.op = "updateProfile") =>
          \A tok \in Presented, b \in ProfileBodies :
             (updateProfile(tok, b) /\ tok.userId \in DOMAIN users) =>
                LET id == tok.userId
                IN  /\ (/\ b.email # None
                        /\ toLowerCase(b.email) # users[id].email
                        /\ ByEmail(users, b.email) = {}) =>
                          /\ out'.err = NoErr
                          /\ id \in DOMAIN users'
                          /\ users'[id].email = toLowerCase(b.email)
                          /\ ~ users'[id].isVerified
                          /\ users'[id].otp = users[id].otp
                          /\ users'[id].otpExpiry = users[id].otpExpiry
                    /\ (/\ out'.err = NoErr
                        /\ b.email \in {None, users[id].email}) =>
                          /\ id \in DOMAIN users'
                          /\ users'[id].email = users[id].email
                          /\ users'[id].isVerified = users[id].isVerified
                          /\ users'[id].otp = users[id].otp
                          /\ users'[id].otpExpiry = users[id].otpExpiry ]_vars

\* updateProfile has succeeded on an account that is now unverified under the
\* other address and still holds the OTP code and expiry it had
C33_Witness ==
    /\ out.op = "updateProfile"
    /\ out.err = NoErr
    /\ out.user.id \in DOMAIN users
    /\ DOMAIN users = {out.user.id}
    /\ nextId = out.user.id + 1
    /\ ~ users[out.user.id].isVerified
    /\ users[out.user.id].googleId # None
    /\ users[out.user.id].otp # NoOtp
    /\ users[out.user.id].otpExpiry > now

\* C34: a resendOTP call for an unverified account stores a code that
\* isOTPValid accepts from then until OTP_TTL minutes later, whether or not
\* its mail is delivered, and leaves the account unverified; a verifyOTP call
\* with the code an unverified account holds, before its expiry, is answered
\* 200 with a token for the account and leaves it verified.
C34_Recoverable ==
    [][ Quiet =>
          /\ \A e \in RawEmails, k \in 0 .. (RandDen - 1) :
                (/\ out'.op = "resendOTP"
                 /\ resendOTP(e, k)
                 /\ \E i \in ByEmail(users, e) : ~ users[i].isVerified) =>
                   /\ out'.err = NoErr
                   /\ \A i \in ByEmail(users, e) :
                         /\ i \in DOMAIN users'
                         /\ users'[i].email = users[i].email
                         /\ ~ users'[i].isVerified
                         /\ users'[i].otp # NoOtp
                         /\ \A t \in now' .. (now' + OTP_TTL - 1) :
                               isOTPValid(users'[i], users'[i].otp, t)
          /\ \A e \in RawEmails, o \in OtpInputs :
                (/\ out'.op = "verifyOTP"
                 /\ verifyOTP(e, o)
                 /\ \E i \in ByEmail(users, e) :
                       /\ ~ users[i].isVerified
                       /\ users[i].otp = o
                       /\ users[i].otpExpiry # NoExpiry
                       /\ now < users[i].otpExpiry) =>
                   \A i \in ByEmail(users, e) :
                      /\ i \in DOMAIN users'
                      /\ users'[i].isVerified
                      /\ \A a \in Replies(out', now') :
                            a.status = 200 /\ a.token # NoToken /\ a.token.userId = i ]_vars

\* resendOTP has stored a fresh code on an account that an e-mail change had
\* left unverified; the code is there for verifyOTP whatever became of the mail
C34_Witness ==
    /\ out.op = "resendOTP"
    /\ out.err = NoErr
    /\ \E i \in DOMAIN users :
          /\ ~ users[i].isVerified
          /\ users[i].googleId # None
          /\ redeems[i] = 0
          /\ users[i].otpExpiry = now + OTP_TTL
          /\ \E a \in Replies(out, now) : a.code = "EMAIL_SEND_FAILED"

\* the answers to a register call that has saved its account
RegisterReplies(m) == { Reply(out, m, now, env) : env \in Envs }

\* C35 as stated: the answer to a register call that has saved its account is
\* made before the OTP mail is attempted: it is the same whether the mail is
\* delivered or not.
C35_ReplyBeforeMail ==
    (out.op = "register" /\ out.err = NoErr) => RegisterReplies(TRUE) = RegisterReplies(FALSE)

\* C35: the answer to a register call that has saved its account is made
\* once the OTP mail has been attempted: it is 201 without a token whether or
\* not the mail is delivered, and its message is the one of a delivered mail
\* or the one of a failed mail; nothing else in it depends on the mail.
C35_ReplyAfterMail ==
    (out.op = "register" /\ out.err = NoErr) =>
       /\ \A m \in BOOLEAN : \A a \in RegisterReplies(m) :
             /\ a.status = 201
             /\ a.code = "OK"
             /\ a.token = NoToken
             /\ a.message = IF m
                            THEN "User registered successfully. Please check your email for OTP verification."
                            ELSE "User registered but email could not be sent. Please try to resend OTP."
       /\ \A a \in RegisterReplies(TRUE) : \A b \in RegisterReplies(FALSE) :
             [a EXCEPT !.message = None] = [b EXCEPT !.message = None]

\* register has saved its account and is answered by the outcome of the mail
C35_Witness ==
    /\ out.op = "register"
    /\ out.err = NoErr
    /\ nextId - 1 \in DOMAIN users
    /\ users[nextId - 1].otp # NoOtp
    /\ \E a \in RegisterReplies(TRUE) : \E b \in RegisterReplies(FALSE) : a.message # b.message

\* C36: refreshTokenMiddleware calls next() once and sends no response,
\* whatever the Authorization header; it sets X-New-Token exactly when the
\* token is signed with JWT_SECRET, is not expired and expires less than a day
\* from now, and then to a token for the same userId and email expiring
\* TOKEN_TTL from now.
C36_RefreshMiddleware ==
    out.op = "refreshTokenMiddleware" =>
       /\ out.nexts = 1
       /\ ~ out.sent
       /\ out.header # NoToken <=>
             (token.sig = "valid" /\ now < token.exp /\ token.exp - now < REFRESH_WINDOW)
       /\ out.header # NoToken =>
             out.header = [userId |-> token.userId, email |-> token.email,
                           exp |-> now + TOKEN_TTL, sig |-> "valid"]

\* a token in its last day but one minute has been renewed
C36_Witness ==
    /\ out.op = "refreshTokenMiddleware"
    /\ token.sig = "valid"
    /\ token.exp - now = REFRESH_WINDOW - 1
    /\ out.header # NoToken
    /\ out.header.exp = now + TOKEN_TTL
    /\ out.header.userId = token.userId

\* C37: no two accounts hold the same googleId.
C37_GoogleIdUnique ==
    \A i, j \in DOMAIN users :
        (i # j /\ users[i].googleId # None) => users[i].googleId # users[j].googleId

\* C38: whenever verifyOTP, login or googleAuth is about to answer with a
\* token, the account the token names is in the store and is verified.
C38_TokenForVerified ==
    (out.op \in {"verifyOTP", "login", "googleAuth"} /\ Issued(out, now) # NoToken) =>
       /\ Issued(out, now).userId \in DOMAIN users
       /\ users[Issued(out, now).userId].isVerified

\* C39: a deleteAccount call for an account that has a password hash is
\* answered 400 PASSWORD_REQUIRED when the body carries no password and 400
\* INVALID_PASSWORD when it carries one that does not match, and then no
\* account and no note is removed; with the matching password, or for an
\* account without a password hash whatever the body carries, it is answered
\* 200, the account and its notes are removed, and every other account and
\* note stays.
C39_DeleteNeedsPassword ==
    [][ (Quiet /\ out'.op = "deleteAccount") =>
          \A tok \in Presented, pw \in Passwords \cup {None} :
             (deleteAccount(tok, pw) /\ tok.userId \in DOMAIN users) =>
                LET id == tok.userId
                    hash == users[id].password
                IN  /\ (hash # None /\ pw = None) =>
                          /\ Refused(out', now', 400, "PASSWORD_REQUIRED")
                          /\ users' = users
                          /\ notes' = notes
                    /\ (hash # None /\ pw # None /\ ~ bcryptCompare(pw, hash)) =>
                          /\ Refused(out', now', 400, "INVALID_PASSWORD")
                          /\ users' = users
                          /\ notes' = notes
                    /\ (hash = None \/ (pw # None /\ bcryptCompare(pw, hash))) =>
                          /\ \A a \in Replies(out', now') : a.status = 200
                          /\ DOMAIN users' = DOMAIN users \ {id}
                          /\ \A i \in DOMAIN users' : users'[i] = users[i]
                          /\ DOMAIN notes' = { n \in DOMAIN notes : notes[n].userId # id }
                          /\ \A n \in DOMAIN notes' : notes'[n] = notes[n] ]_vars

\* deleteAccount with a wrong password has been refused, and the account
\* and its note are still there
C39_Witness ==
    /\ out.op = "deleteAccount"
    /\ Refused(out, now, 400, "INVALID_PASSWORD")
    /\ token.userId \in DOMAIN users
    /\ users[token.userId].password # None
    /\ \E n \in DOMAIN notes : notes[n].userId = token.userId

====
